---- MODULE Spec2Model ----
(***************************************************************************)
(* Model of @grunnverk/commands-audio: the audio-commit command            *)
(* (src/commands/audio-commit.ts) and the audio-review command with its    *)
(* directory batch mode (audio-review.ts, discoverAudioFiles,              *)
(* processSingleAudioFile).                                                *)
(*                                                                         *)
(* One behaviour of Spec is one invocation of execute(runConfig).  The     *)
(* handler is cut at its await points: every collaborator (processAudio,   *)
(* transcribeAudio, the downstream commit/review command, the storage      *)
(* listing) answers in an action of its own, returning or raising a value  *)
(* drawn from a small set, and the action runs the handler's code up to    *)
(* the next await.                                                         *)
(*                                                                         *)
(* A string is a sequence of pieces (characters or longer fragments); the  *)
(* string is their concatenation.  An optional value (a JavaScript value   *)
(* that may be undefined) is a sequence of length 0 or 1.                  *)
(***************************************************************************)
EXTENDS Integers, Sequences, FiniteSets, TLC

VARIABLES
    cmd,            \* which exported command was invoked
    runConfig,      \* the Config handed to execute
    pc,             \* position of the handler (the await it is suspended on)
    timer,          \* the countdown timer of this invocation
    calls,          \* collaborator calls made so far, in order
    acquisition,    \* what processAudio answered
    transcription,  \* what transcribeAudio answered (single-file mode)
    audioPath,      \* the paths handed to transcribeAudio, in order
    audioContext,   \* the local variable audioContext
    delegated,      \* the configs handed to the downstream command, in order
    downstream,     \* what the downstream command answered (last call)
    outcome,        \* how execute ended: returned a string or raised
    listing,        \* what storage.listFiles answered (batch mode)
    audioFiles,     \* the discovered files (batch mode)
    idx,            \* the loop variable i of the batch loop
    results,        \* the array results of the batch loop
    fileLog,        \* per batch file: what the collaborators answered
    storage,        \* what the storage answered to discoverAudioFiles
    homedir,        \* what os.homedir() answered (select-audio)
    device          \* what selectAndConfigureAudioDevice answered (select-audio)

vars == <<cmd, runConfig, pc, timer, calls, acquisition, transcription,
          audioPath, audioContext, delegated, downstream, outcome, listing,
          storage, homedir, device, audioFiles, idx, results, fileLog>>

----------------------------------------------------------------------------
(* Bounds of the model *)

\* longest transcript text, in characters
MaxTextLen == 2
\* longest directory listing in the main specification
MaxListing == 2
\* longest directory listing in the discovery specification
MaxEntries == 3
\* longest error message, in fragments, in the device selection specification
MaxMessageLen == 3

----------------------------------------------------------------------------
(* Optional values and strings *)

None == <<>>
Some(v) == <<v>>

\* the string built from one fragment
Str(s) == <<s>>

EmptyString == <<>>

\* JavaScript truthiness of an optional string: undefined and '' are falsy
TruthyStr(o) == o # None /\ o[1] # EmptyString

\* JavaScript truthiness of an optional number: undefined and 0 are falsy
TruthyNum(o) == o # None /\ o[1] # 0

\* a || b for an optional string a and a string b
OrElse(o, d) == IF TruthyStr(o) THEN o[1] ELSE d

IsWhiteSpace(c) == c \in {" ", "\n", "\t"}

RECURSIVE TrimStart(_)
TrimStart(s) ==
    IF s = <<>> THEN <<>>
    ELSE IF IsWhiteSpace(Head(s)) THEN TrimStart(Tail(s))
    ELSE s

RECURSIVE TrimEnd(_)
TrimEnd(s) ==
    IF s = <<>> THEN <<>>
    ELSE IF IsWhiteSpace(s[Len(s)]) THEN TrimEnd(SubSeq(s, 1, Len(s) - 1))
    ELSE s

\* String.prototype.trim
Trim(s) == TrimEnd(TrimStart(s))

\* String.prototype.includes for one fragment
Contains(s, piece) == \E i \in 1..Len(s) : s[i] = piece

----------------------------------------------------------------------------
(* Errors *)

\* An error value: its class (what instanceof sees), its name property, its
\* message, and where it was created (two errors of different origin are
\* different objects).
Err(class, name, message, origin) ==
    [class |-> class, name |-> name, message |-> message, origin |-> origin]

NoError == Err("", "", "", "none")

\* The error classes come from the shared library, whose constructors set the
\* name property to the name of the class.

\* new UserCancellationError(message), thrown by executeInternal
NewUserCancellationError(message) ==
    Err("UserCancellationError", "UserCancellationError", message, "execute")

\* new CancellationError(message), thrown by audio-review's execute
NewCancellationError(message) ==
    Err("CancellationError", "CancellationError", message, "execute")

\* new Error(message)
NewError(message) == Err("Error", "Error", message, "execute")

\* the TypeError the runtime raises on reading a property of undefined or on
\* calling a method that does not exist
TypeError == Err("TypeError", "TypeError", "TypeError", "execute")

\* What a collaborator may raise: a plain error, the two cancellation classes,
\* a cancellation class whose name property was not set, and an error of
\* another class that carries the name 'CancellationError'.
ThrownErrors(origin) ==
    { Err("Error", "Error", "boom", origin),
      Err("CancellationError", "CancellationError", "cancelled", origin),
      Err("UserCancellationError", "UserCancellationError", "cancelled", origin),
      Err("CancellationError", "Error", "cancelled", origin),
      Err("Error", "CancellationError", "cancelled", origin) }

\* error instanceof UserCancellationError
InstanceOfUserCancellationError(e) == e.class = "UserCancellationError"

\* error instanceof CancellationError
InstanceOfCancellationError(e) == e.class = "CancellationError"

----------------------------------------------------------------------------
(* Inputs *)

Commands == {"audioCommit", "audioReview"}

\* the characters of a transcript
TextChars == {" ", "h"}

RECURSIVE SeqsUpTo(_, _)
\* the sequences over S of length at most n
SeqsUpTo(S, n) ==
    IF n = 0 THEN {<<>>}
    ELSE LET shorter == SeqsUpTo(S, n - 1)
         IN  shorter \cup {Append(s, c) : s \in shorter, c \in S}

Texts == SeqsUpTo(TextChars, MaxTextLen)

AudioFile == <<"/", "a", ".", "w", "a", "v">>
Directory == <<"/", "r", "e", "c", "s">>
RecordedFile == <<"/", "r", "e", "c", ".", "w", "a", "v">>

\* the options block of one command (audioCommit, or audioReview without the
\* fields that only audio-review reads)
AudioOptions ==
    [file : {None, Some(AudioFile)},
     maxRecordingTime : {None, Some(0), Some(-1), Some(60)}]

\* the review-only fields of the audioReview block, forwarded to the review
ForwardedOptions ==
    [includeCommitHistory |-> Some(TRUE),
     includeRecentDiffs |-> Some(FALSE),
     includeReleaseNotes |-> None,
     includeGithubIssues |-> Some(TRUE),
     commitHistoryLimit |-> Some(10),
     diffHistoryLimit |-> None,
     releaseNotesLimit |-> Some(3),
     githubIssuesLimit |-> Some(20),
     sendit |-> Some(TRUE),
     context |-> Some(Str("ctx"))]

\* f extended by the fields of g
Merge(f, g) ==
    [k \in DOMAIN f \cup DOMAIN g |-> IF k \in DOMAIN g THEN g[k] ELSE f[k]]

\* the audioReview block without a directory: every file and recording time
SingleReviewOptions ==
    {Merge(ForwardedOptions, [file |-> o.file, directory |-> None,
                              maxRecordingTime |-> o.maxRecordingTime]) :
        o \in AudioOptions}

\* the audioReview block with a directory, with or without a file and a
\* recording time beside it
BatchReviewOptions ==
    {Merge(ForwardedOptions, [file |-> file, directory |-> Some(Directory),
                              maxRecordingTime |-> time]) :
        file \in {None, Some(AudioFile)}, time \in {None, Some(60)}}

\* the audioReview block when the command is audioCommit: nothing set
NoReviewOptions ==
    [k \in DOMAIN ForwardedOptions \cup {"file", "directory", "maxRecordingTime"} |-> None]

\* the free-text field as the caller may have set it
FreeTexts == {None, Some(EmptyString), Some(Str("old"))}

CommitConfigs ==
    [dryRun : BOOLEAN,
     debug : {FALSE},
     outputDirectory : {None},
     audioCommit : AudioOptions,
     commit : [direction : FreeTexts, add : {Some(TRUE)}],
     audioReview : {NoReviewOptions},
     review : [note : {None}, sendit : {Some(FALSE)}]]
    \cup
    [dryRun : {FALSE},
     debug : {FALSE},
     outputDirectory : {Some(Str("out")), Some(EmptyString)},
     audioCommit : {[file |-> None, maxRecordingTime |-> None]},
     commit : [direction : {None}, add : {Some(TRUE)}],
     audioReview : {NoReviewOptions},
     review : [note : {None}, sendit : {Some(FALSE)}]]

ReviewConfigs ==
    [dryRun : BOOLEAN,
     debug : {FALSE},
     outputDirectory : {None},
     audioCommit : {[file |-> None, maxRecordingTime |-> None]},
     commit : [direction : {None}, add : {Some(TRUE)}],
     audioReview : SingleReviewOptions,
     review : [note : FreeTexts, sendit : {Some(FALSE)}]]
    \cup
    [dryRun : BOOLEAN,
     debug : {FALSE},
     outputDirectory : {None},
     audioCommit : {[file |-> None, maxRecordingTime |-> None]},
     commit : [direction : {None}, add : {Some(TRUE)}],
     audioReview : BatchReviewOptions,
     review : [note : {None, Some(Str("old"))}, sendit : {Some(FALSE)}]]
    \cup
    [dryRun : {FALSE},
     debug : {FALSE},
     outputDirectory : {Some(Str("out")), Some(EmptyString)},
     audioCommit : {[file |-> None, maxRecordingTime |-> None]},
     commit : [direction : {None}, add : {Some(TRUE)}],
     audioReview : {Merge(ForwardedOptions, [file |-> None, directory |-> d,
                                             maxRecordingTime |-> None]) :
                        d \in {None, Some(EmptyString)}},
     review : [note : {None}, sendit : {Some(FALSE)}]]

\* the configs command c is invoked with
Configs(c) == IF c = "audioCommit" THEN CommitConfigs ELSE ReviewConfigs

\* what processAudio may return
AudioResults ==
    [cancelled : {None, Some(TRUE), Some(FALSE)},
     audioFilePath : {None, Some(RecordedFile)}]

\* what transcribeAudio may return: an object with a string text, or a value
\* of another shape
Transcriptions ==
    [shape : {"object"}, text : Texts]
    \cup [shape : {"null", "string", "noText", "numberText"}, text : {EmptyString}]

\* what the downstream command may return
DownstreamResults == {Str("Mock message generated"), EmptyString}

\* The answer of a call: none yet, a returned value or a raised error.  A
\* call of kind k returns a value of its own type; d is that type's default.
Answer(kind, result, error) == [kind |-> kind, result |-> result, error |-> error]

NoAudioResult == [cancelled |-> None, audioFilePath |-> None]
NoTranscription == [shape |-> "null", text |-> EmptyString]

NoAnswer == Answer("none", EmptyString, NoError)
Returned(v) == Answer("returned", v, NoError)
Raised(e) == Answer("raised", EmptyString, e)

NoTimer == [created |-> 0, started |-> 0, stopped |-> 0, promise |-> "none"]

Init ==
    /\ cmd \in Commands
    /\ runConfig \in Configs(cmd)
    /\ pc = "start"
    /\ timer = NoTimer
    /\ calls = <<>>
    /\ acquisition = Answer("none", NoAudioResult, NoError)
    /\ transcription = Answer("none", NoTranscription, NoError)
    /\ audioPath = <<>>
    /\ audioContext = EmptyString
    /\ delegated = <<>>
    /\ downstream = NoAnswer
    /\ outcome = NoAnswer
    /\ listing = <<>>
    /\ audioFiles = <<>>
    /\ idx = 0
    /\ results = <<>>
    /\ fileLog = <<>>
    /\ storage = "none"
    /\ homedir = NoAnswer
    /\ device = NoAnswer

----------------------------------------------------------------------------
(* Pieces shared by the two commands' single-file/recording flow *)

\* mutant of IsDryRun: the dryRun flag is not read
IsDryRunIgnored(cfg) == FALSE

\* const isDryRun = runConfig.dryRun || false
IsDryRun(cfg) == cfg.dryRun

\* variant: the countdown does not depend on a file being supplied
WantsCountdownWithFile(opts) ==
    /\ TruthyNum(opts.maxRecordingTime)
    /\ opts.maxRecordingTime[1] > 0

\* isRecording && maxRecordingTime && maxRecordingTime > 0
WantsCountdown(opts) ==
    /\ ~TruthyStr(opts.file)
    /\ TruthyNum(opts.maxRecordingTime)
    /\ opts.maxRecordingTime[1] > 0

\* countdownTimer = createAudioRecordingCountdown(...); countdownTimer.start()
StartCountdown(t, opts) ==
    IF WantsCountdown(opts)
    THEN [created |-> t.created + 1, started |-> t.started + 1,
          stopped |-> t.stopped, promise |-> "pending"]
    ELSE t

\* mutant of StopCountdown: the timer is left running
StopCountdownSkipped(t) == t

\* finally { if (countdownTimer) countdownTimer.stop() }
StopCountdown(t) ==
    IF t.created > 0 THEN [t EXCEPT !.stopped = t.stopped + 1] ELSE t

\* variant: the countdown is created and started after processAudio is called
AcquireCallsLateStart(opts) ==
    <<"processAudio">>
    \o (IF WantsCountdown(opts) THEN <<"createAudioRecordingCountdown", "start">> ELSE <<>>)

\* the calls the acquisition step makes up to its await
AcquireCalls(opts) ==
    (IF WantsCountdown(opts) THEN <<"createAudioRecordingCountdown", "start">> ELSE <<>>)
    \o <<"processAudio">>

\* the calls of the finally block
StopCalls(t) == IF t.created > 0 THEN <<"stop">> ELSE <<>>

\* runConfig.outputDirectory || 'output'
OutputDir(cfg) == OrElse(cfg.outputDirectory, Str("output"))

\* path.join(outputDir, getTimestampedAudioFilename())
GeneratedFilename(cfg) == OutputDir(cfg) \o <<"/", "audio-timestamp.wav">>

\* variant: the path reported by processAudio wins over the file option
ResolveAudioFilePathReportedFirst(cfg, opts, audioResult) ==
    IF TruthyStr(audioResult.audioFilePath) THEN audioResult.audioFilePath[1]
    ELSE IF TruthyStr(opts.file) THEN opts.file[1]
    ELSE GeneratedFilename(cfg)

\* Step 2: the path handed to transcribeAudio
ResolveAudioFilePath(cfg, opts, audioResult) ==
    IF TruthyStr(opts.file) THEN opts.file[1]
    ELSE IF TruthyStr(audioResult.audioFilePath) THEN audioResult.audioFilePath[1]
    ELSE GeneratedFilename(cfg)

\* mutant of Cancelled: the cancelled flag of the result is not checked
CancelledIgnored(audioResult) == FALSE

\* if (audioResult.cancelled)
Cancelled(audioResult) ==
    audioResult.cancelled # None /\ audioResult.cancelled[1] = TRUE

\* audioContext after a transcription with a string text:
\* blank text becomes '', other text is kept as it is
ContextOf(text) == IF Trim(text) = EmptyString THEN EmptyString ELSE text

\* mutant of ResolveFreeText: the field of the config wins over the transcript
ResolveFreeTextExistingFirst(context, existing) ==
    IF TruthyStr(existing) THEN existing[1] ELSE Trim(context)

\* audioContext.trim() || <field of the config> || ''
ResolveFreeText(context, existing) ==
    IF Trim(context) # EmptyString THEN Trim(context)
    ELSE OrElse(existing, EmptyString)

\* variant: a rejection of the promise of countdownTimer.start() is not caught
\* and ends the invocation
TimerSettlesUncaught ==
    /\ timer.promise = "pending"
    /\ \E how \in {"resolved", "rejected"} :
        /\ timer' = [timer EXCEPT !.promise = how]
        /\ IF how = "rejected" /\ pc # "done"
           THEN /\ pc' = "done"
                /\ outcome' = Raised(Err("Error", "Error", "boom", "start"))
           ELSE UNCHANGED <<pc, outcome>>
    /\ UNCHANGED <<cmd, runConfig, calls, acquisition, transcription, audioPath,
                   audioContext, delegated, downstream, listing, storage, homedir,
                   device, audioFiles, idx, results, fileLog>>

\* the promise of countdownTimer.start() settles; its rejection is swallowed
\* by .catch(() => {})
TimerSettles ==
    /\ timer.promise = "pending"
    /\ \E how \in {"resolved", "rejected"} : timer' = [timer EXCEPT !.promise = how]
    /\ UNCHANGED <<cmd, runConfig, pc, calls, acquisition, transcription,
                   audioPath, audioContext, delegated, downstream, outcome,
                   listing, storage, homedir, device, audioFiles, idx, results,
                   fileLog>>

----------------------------------------------------------------------------
(* audio-commit *)

CommitDryRunResult ==
    <<"DRY RUN", ": Would process audio, ", "transcribe",
      " it, and generate commit message with audio context">>

\* variant: the catch block throws a legacy CancellationError on as it is
CommitCatchKeepsLegacy(error) ==
    IF InstanceOfUserCancellationError(error)
    THEN [rethrow |-> TRUE, error |-> error]
    ELSE IF error.name = "CancellationError" \/ InstanceOfCancellationError(error)
    THEN [rethrow |-> TRUE, error |-> error]
    ELSE [rethrow |-> FALSE, error |-> NoError]

\* variant: the catch block swallows every error but a UserCancellationError
CommitCatchIgnoresLegacy(error) ==
    IF InstanceOfUserCancellationError(error)
    THEN [rethrow |-> TRUE, error |-> error]
    ELSE [rethrow |-> FALSE, error |-> NoError]

\* mutant of CommitCatch: the catch block throws every error on
CommitCatchRethrowsAll(error) == [rethrow |-> TRUE, error |-> error]

\* the catch block of executeInternal: which error leaves the function, if any
CommitCatch(error) ==
    IF InstanceOfUserCancellationError(error)
    THEN [rethrow |-> TRUE, error |-> error]
    ELSE IF error.name = "CancellationError" \/ InstanceOfCancellationError(error)
    THEN [rethrow |-> TRUE, error |-> NewUserCancellationError(error.message)]
    ELSE [rethrow |-> FALSE, error |-> NoError]

\* mutant of CommitExecuteCatch: the error is wrapped in a new one
CommitExecuteCatchWraps(error) == NewError(error.message)

\* the catch block of execute: logs and throws the error it caught
CommitExecuteCatch(error) == error

\* variant: the commit block is replaced by one that holds the direction only
\* (the other commit fields read as undefined)
CommitConfigDirectionOnly(cfg, context) ==
    [cfg EXCEPT !.commit =
        [direction |-> ResolveFreeText(context, cfg.commit.direction),
         add |-> None]]

\* the config handed to executeCommit
CommitConfig(cfg, context) ==
    [cfg EXCEPT !.commit =
        [cfg.commit EXCEPT !.direction = ResolveFreeText(context, cfg.commit.direction)]]

\* transcription.text and audioContext.trim() of executeInternal: does reading
\* them raise a TypeError
CommitTextRaises(t) == t.shape # "object"

\* The end of executeInternal's try block: thrown says whether the block threw
\* error; otherwise it ended with audioContext = context.  The calls made so
\* far are calls2.
CommitAfterTry(thrown, error, context, calls2) ==
    IF thrown /\ CommitCatch(error).rethrow
    THEN /\ pc' = "done"
         /\ outcome' = Raised(CommitExecuteCatch(CommitCatch(error).error))
         /\ calls' = calls2
         /\ UNCHANGED <<audioContext, delegated>>
    ELSE LET ctx == IF thrown THEN EmptyString ELSE context
         IN  /\ audioContext' = ctx
             /\ delegated' = Append(delegated, CommitConfig(runConfig, ctx))
             /\ calls' = Append(calls2, "executeCommit")
             /\ pc' = "awaitDownstream"
             /\ UNCHANGED outcome

CommitDryRun ==
    /\ cmd = "audioCommit" /\ pc = "start"
    /\ IsDryRun(runConfig)
    /\ pc' = "done"
    /\ outcome' = Returned(CommitDryRunResult)
    /\ UNCHANGED <<cmd, runConfig, timer, calls, acquisition, transcription,
                   audioPath, audioContext, delegated, downstream, listing,
                   storage, homedir, device, audioFiles, idx, results, fileLog>>

CommitAcquire ==
    /\ cmd = "audioCommit" /\ pc = "start"
    /\ ~IsDryRun(runConfig)
    /\ timer' = StartCountdown(timer, runConfig.audioCommit)
    /\ calls' = calls \o AcquireCalls(runConfig.audioCommit)
    /\ pc' = "awaitProcessAudio"
    /\ UNCHANGED <<cmd, runConfig, acquisition, transcription, audioPath,
                   audioContext, delegated, downstream, outcome, listing,
                   storage, homedir, device, audioFiles, idx, results, fileLog>>

CommitProcessAudioReturns ==
    /\ cmd = "audioCommit" /\ pc = "awaitProcessAudio"
    /\ \E audioResult \in AudioResults :
        /\ acquisition' = Returned(audioResult)
        /\ timer' = StopCountdown(timer)
        /\ IF Cancelled(audioResult)
           THEN /\ CommitAfterTry(TRUE,
                        NewUserCancellationError("Audio commit cancelled by user"),
                        EmptyString, calls \o StopCalls(timer))
                /\ UNCHANGED audioPath
           ELSE /\ audioPath' = Append(audioPath,
                        ResolveAudioFilePath(runConfig, runConfig.audioCommit, audioResult))
                /\ calls' = (calls \o StopCalls(timer)) \o <<"transcribeAudio">>
                /\ pc' = "awaitTranscribe"
                /\ UNCHANGED <<audioContext, delegated, outcome>>
    /\ UNCHANGED <<cmd, runConfig, transcription, downstream, listing, storage,
                   homedir, device, audioFiles, idx, results, fileLog>>

\* variant: after a failed acquisition that is no cancellation the flow goes
\* on to transcribeAudio
CommitProcessAudioRaisesThenTranscribes ==
    /\ cmd = "audioCommit" /\ pc = "awaitProcessAudio"
    /\ \E error \in ThrownErrors("processAudio") :
        /\ acquisition' = Answer("raised", NoAudioResult, error)
        /\ timer' = StopCountdown(timer)
        /\ IF CommitCatch(error).rethrow
           THEN /\ CommitAfterTry(TRUE, error, EmptyString, calls \o StopCalls(timer))
                /\ UNCHANGED audioPath
           ELSE /\ audioPath' = Append(audioPath,
                        ResolveAudioFilePath(runConfig, runConfig.audioCommit,
                                             NoAudioResult))
                /\ calls' = (calls \o StopCalls(timer)) \o <<"transcribeAudio">>
                /\ pc' = "awaitTranscribe"
                /\ UNCHANGED <<audioContext, delegated, outcome>>
    /\ UNCHANGED <<cmd, runConfig, transcription, downstream, listing, storage,
                   homedir, device, audioFiles, idx, results, fileLog>>

CommitProcessAudioRaises ==
    /\ cmd = "audioCommit" /\ pc = "awaitProcessAudio"
    /\ \E error \in ThrownErrors("processAudio") :
        /\ acquisition' = Answer("raised", NoAudioResult, error)
        /\ timer' = StopCountdown(timer)
        /\ CommitAfterTry(TRUE, error, EmptyString, calls \o StopCalls(timer))
    /\ UNCHANGED <<cmd, runConfig, transcription, audioPath, downstream,
                   listing, storage, homedir, device, audioFiles, idx, results,
                   fileLog>>

CommitTranscribeReturns ==
    /\ cmd = "audioCommit" /\ pc = "awaitTranscribe"
    /\ \E t \in Transcriptions :
        /\ transcription' = Returned(t)
        /\ CommitAfterTry(CommitTextRaises(t), TypeError, ContextOf(t.text), calls)
    /\ UNCHANGED <<cmd, runConfig, timer, acquisition, audioPath, downstream,
                   listing, storage, homedir, device, audioFiles, idx, results,
                   fileLog>>

\* variant: the fallback writes the direction into the caller's config
CommitTranscribeRaisesWritesConfig ==
    /\ cmd = "audioCommit" /\ pc = "awaitTranscribe"
    /\ \E error \in ThrownErrors("transcribeAudio") :
        /\ transcription' = Answer("raised", NoTranscription, error)
        /\ CommitAfterTry(TRUE, error, EmptyString, calls)
    /\ runConfig' = [runConfig EXCEPT !.commit.direction = Some(EmptyString)]
    /\ UNCHANGED <<cmd, timer, acquisition, audioPath, downstream, listing,
                   storage, homedir, device, audioFiles, idx, results, fileLog>>

CommitTranscribeRaises ==
    /\ cmd = "audioCommit" /\ pc = "awaitTranscribe"
    /\ \E error \in ThrownErrors("transcribeAudio") :
        /\ transcription' = Answer("raised", NoTranscription, error)
        /\ CommitAfterTry(TRUE, error, EmptyString, calls)
    /\ UNCHANGED <<cmd, runConfig, timer, acquisition, audioPath, downstream,
                   listing, storage, homedir, device, audioFiles, idx, results,
                   fileLog>>

\* mutant of CommitDelegateReturns: the result is wrapped before it is returned
CommitDelegateReturnsWrapped ==
    /\ cmd = "audioCommit" /\ pc = "awaitDownstream"
    /\ \E result \in DownstreamResults :
        /\ downstream' = Returned(result)
        /\ outcome' = Returned(<<"Commit: ">> \o result)
    /\ pc' = "done"
    /\ UNCHANGED <<cmd, runConfig, timer, calls, acquisition, transcription,
                   audioPath, audioContext, delegated, listing, storage,
                   homedir, device, audioFiles, idx, results, fileLog>>

CommitDelegateReturns ==
    /\ cmd = "audioCommit" /\ pc = "awaitDownstream"
    /\ \E result \in DownstreamResults :
        /\ downstream' = Returned(result)
        /\ outcome' = Returned(result)
    /\ pc' = "done"
    /\ UNCHANGED <<cmd, runConfig, timer, calls, acquisition, transcription,
                   audioPath, audioContext, delegated, listing, storage,
                   homedir, device, audioFiles, idx, results, fileLog>>

CommitDelegateRaises ==
    /\ cmd = "audioCommit" /\ pc = "awaitDownstream"
    /\ \E error \in ThrownErrors("executeCommit") :
        /\ downstream' = Raised(error)
        /\ outcome' = Raised(CommitExecuteCatch(error))
    /\ pc' = "done"
    /\ UNCHANGED <<cmd, runConfig, timer, calls, acquisition, transcription,
                   audioPath, audioContext, delegated, listing, storage,
                   homedir, device, audioFiles, idx, results, fileLog>>

----------------------------------------------------------------------------
(* Paths and directory discovery (audio-review) *)

UpperCase == <<"A", "B", "C", "D", "E", "F", "G", "H", "I", "J", "K", "L", "M",
               "N", "O", "P", "Q", "R", "S", "T", "U", "V", "W", "X", "Y", "Z">>
LowerCase == <<"a", "b", "c", "d", "e", "f", "g", "h", "i", "j", "k", "l", "m",
               "n", "o", "p", "q", "r", "s", "t", "u", "v", "w", "x", "y", "z">>
Digits == <<"0", "1", "2", "3", "4", "5", "6", "7", "8", "9">>

IndexIn(seq, c) == CHOOSE i \in 1..Len(seq) : seq[i] = c
IsIn(seq, c) == \E i \in 1..Len(seq) : seq[i] = c

\* the UTF-16 code unit of a character
CharCode(c) ==
    IF IsIn(UpperCase, c) THEN 64 + IndexIn(UpperCase, c)
    ELSE IF IsIn(LowerCase, c) THEN 96 + IndexIn(LowerCase, c)
    ELSE IF IsIn(Digits, c) THEN 47 + IndexIn(Digits, c)
    ELSE IF c = "." THEN 46
    ELSE IF c = "/" THEN 47
    ELSE IF c = "-" THEN 45
    ELSE IF c = "_" THEN 95
    ELSE 32

\* String.prototype.toLowerCase
ToLowerCase(s) ==
    [i \in 1..Len(s) |-> IF IsIn(UpperCase, s[i]) THEN LowerCase[IndexIn(UpperCase, s[i])]
                         ELSE s[i]]

\* the positions of character c in s
Positions(s, c) == {i \in 1..Len(s) : s[i] = c}

SetMax(S) == CHOOSE m \in S : \A x \in S : x <= m

\* path.basename
Basename(p) ==
    IF Positions(p, "/") = {} THEN p
    ELSE SubSeq(p, SetMax(Positions(p, "/")) + 1, Len(p))

\* path.extname: from the last dot of the basename to its end; '' when there
\* is no dot, when the only dot is the first character, and for '..'
ExtName(p) ==
    LET base == Basename(p)
        dots == Positions(base, ".")
    IN  IF dots = {} THEN EmptyString
        ELSE IF SetMax(dots) = 1 THEN EmptyString
        ELSE IF base = <<".", ".">> THEN EmptyString
        ELSE SubSeq(base, SetMax(dots), Len(base))

\* path.join(directory, file) for a directory without a trailing slash and a
\* plain file name
PathJoin(directory, file) == directory \o <<"/">> \o file

AUDIO_EXTENSIONS ==
    << <<".", "w", "a", "v">>, <<".", "m", "p", "3">>, <<".", "m", "4", "a">>,
       <<".", "a", "a", "c">>, <<".", "f", "l", "a", "c">>, <<".", "o", "g", "g">>,
       <<".", "w", "m", "a">> >>

\* mutant of IsAudioFile: the extension is compared as it is written
IsAudioFileCaseSensitive(file) == IsIn(AUDIO_EXTENSIONS, ExtName(file))

\* AUDIO_EXTENSIONS.includes(path.extname(file).toLowerCase())
IsAudioFile(file) == IsIn(AUDIO_EXTENSIONS, ToLowerCase(ExtName(file)))

RECURSIVE StrLess(_, _)
\* a < b as Array.prototype.sort compares strings: by UTF-16 code units
StrLess(a, b) ==
    IF b = <<>> THEN FALSE
    ELSE IF a = <<>> THEN TRUE
    ELSE IF CharCode(Head(a)) # CharCode(Head(b)) THEN CharCode(Head(a)) < CharCode(Head(b))
    ELSE StrLess(Tail(a), Tail(b))

RECURSIVE Insert(_, _)
Insert(sorted, x) ==
    IF sorted = <<>> THEN <<x>>
    ELSE IF StrLess(x, Head(sorted)) THEN <<x>> \o sorted
    ELSE <<Head(sorted)>> \o Insert(Tail(sorted), x)

RECURSIVE Sort(_)
\* Array.prototype.sort without a comparator
Sort(seq) == IF seq = <<>> THEN <<>> ELSE Insert(Sort(SubSeq(seq, 1, Len(seq) - 1)), seq[Len(seq)])

RECURSIVE Filter(_)
\* allFiles.filter(file => AUDIO_EXTENSIONS.includes(...))
Filter(allFiles) ==
    IF allFiles = <<>> THEN <<>>
    ELSE IF IsAudioFile(Head(allFiles)) THEN <<Head(allFiles)>> \o Filter(Tail(allFiles))
    ELSE Filter(Tail(allFiles))

\* .map(file => path.join(directory, file))
MapJoin(directory, files) == [i \in 1..Len(files) |-> PathJoin(directory, files[i])]

\* discoverAudioFiles on a readable directory whose listing is allFiles
DiscoverAudioFiles(directory, allFiles) == Sort(MapJoin(directory, Filter(allFiles)))

\* directory entries
Entry_b_wav == <<"b", ".", "w", "a", "v">>
Entry_a_mp3 == <<"a", ".", "m", "p", "3">>
Entry_notes_txt == <<"n", "o", "t", "e", "s", ".", "t", "x", "t">>
Entry_C_WAV == <<"C", ".", "W", "A", "V">>
Entry_dot_wav == <<".", "w", "a", "v">>
Entry_d_Ogg == <<"d", ".", "O", "g", "g">>
Entry_e == <<"e">>
Entry_b_wav_txt == <<"b", ".", "w", "a", "v", ".", "t", "x", "t">>
Entry_a_flac == <<"a", ".", "f", "l", "a", "c">>

\* the entries a listing of the discovery specification is drawn from
Entries ==
    {Entry_b_wav, Entry_a_mp3, Entry_notes_txt, Entry_C_WAV, Entry_dot_wav,
     Entry_d_Ogg, Entry_e, Entry_b_wav_txt, Entry_a_flac}

\* the entries a listing of a batch run is drawn from
BatchEntries == {Entry_b_wav, Entry_a_mp3, Entry_notes_txt}

RECURSIVE Listings(_, _)
\* the listings over S of at most n entries: no entry twice, in any order
Listings(S, n) ==
    IF n = 0 THEN {<<>>}
    ELSE LET shorter == Listings(S, n - 1)
             Fresh(l, e) == \A i \in 1..Len(l) : l[i] # e
         IN  shorter \cup {Append(l, e) : <<l, e>> \in {x \in shorter \X S : Fresh(x[1], x[2])}}

----------------------------------------------------------------------------
(* audio-review: single file / recording *)

ReviewDryRunResult ==
    <<"DRY RUN", ": Would process audio, ", "transcribe",
      " it, and perform review analysis with audio context">>

ReviewBatchDryRunResult ==
    <<"DRY RUN", ": Directory batch processing would be performed">>

\* variant: a file option beside the directory selects the single-file flow
BatchModeUnlessFile(cfg) ==
    TruthyStr(cfg.audioReview.directory) /\ ~TruthyStr(cfg.audioReview.file)

\* const directory = ... ; if (directory)
BatchMode(cfg) == TruthyStr(cfg.audioReview.directory)

\* variant: the catch block recognises a cancellation by its class
ReviewCatchByClass(error) ==
    IF InstanceOfCancellationError(error)
    THEN [rethrow |-> TRUE, error |-> error]
    ELSE [rethrow |-> FALSE, error |-> NoError]

\* mutant of ReviewCatch: the catch block swallows every error
ReviewCatchSwallowsAll(error) == [rethrow |-> FALSE, error |-> NoError]

\* the catch block of execute's single-file flow: which error leaves, if any
ReviewCatch(error) ==
    IF error.name = "CancellationError"
    THEN [rethrow |-> TRUE, error |-> error]
    ELSE [rethrow |-> FALSE, error |-> NoError]

\* !transcription || typeof transcription !== 'object' ||
\* typeof transcription.text !== 'string'
InvalidTranscription(t) == t.shape # "object"

\* variant: the validation failure is signalled as a cancellation
InvalidTranscriptionAsCancellation ==
    NewCancellationError("Invalid transcription result: missing or invalid text property")

InvalidTranscriptionError ==
    NewError("Invalid transcription result: missing or invalid text property")

\* the config handed to executeReview
ReviewConfig(cfg, note) ==
    [cfg EXCEPT !.review =
        [includeCommitHistory |-> cfg.audioReview.includeCommitHistory,
         includeRecentDiffs |-> cfg.audioReview.includeRecentDiffs,
         includeReleaseNotes |-> cfg.audioReview.includeReleaseNotes,
         includeGithubIssues |-> cfg.audioReview.includeGithubIssues,
         commitHistoryLimit |-> cfg.audioReview.commitHistoryLimit,
         diffHistoryLimit |-> cfg.audioReview.diffHistoryLimit,
         releaseNotesLimit |-> cfg.audioReview.releaseNotesLimit,
         githubIssuesLimit |-> cfg.audioReview.githubIssuesLimit,
         sendit |-> cfg.audioReview.sendit,
         context |-> cfg.audioReview.context,
         note |-> note]]

\* The end of the try block of execute's single-file flow: thrown says whether
\* the block threw error; otherwise it ended with audioContext = context.
ReviewAfterTry(thrown, error, context, calls2) ==
    IF thrown /\ ReviewCatch(error).rethrow
    THEN /\ pc' = "done"
         /\ outcome' = Raised(ReviewCatch(error).error)
         /\ calls' = calls2
         /\ UNCHANGED <<audioContext, delegated>>
    ELSE LET ctx == IF thrown THEN EmptyString ELSE context
         IN  /\ audioContext' = ctx
             /\ delegated' = Append(delegated,
                    ReviewConfig(runConfig, ResolveFreeText(ctx, runConfig.review.note)))
             /\ calls' = Append(calls2, "executeReview")
             /\ pc' = "awaitDownstream"
             /\ UNCHANGED outcome

ReviewDryRun ==
    /\ cmd = "audioReview" /\ pc = "start"
    /\ IsDryRun(runConfig)
    /\ pc' = "done"
    /\ outcome' = Returned(IF BatchMode(runConfig) THEN ReviewBatchDryRunResult
                           ELSE ReviewDryRunResult)
    /\ UNCHANGED <<cmd, runConfig, timer, calls, acquisition, transcription,
                   audioPath, audioContext, delegated, downstream, listing,
                   storage, homedir, device, audioFiles, idx, results, fileLog>>

ReviewAcquire ==
    /\ cmd = "audioReview" /\ pc = "start"
    /\ ~BatchMode(runConfig)
    /\ ~IsDryRun(runConfig)
    /\ timer' = StartCountdown(timer, runConfig.audioReview)
    /\ calls' = calls \o AcquireCalls(runConfig.audioReview)
    /\ pc' = "awaitProcessAudio"
    /\ UNCHANGED <<cmd, runConfig, acquisition, transcription, audioPath,
                   audioContext, delegated, downstream, outcome, listing,
                   storage, homedir, device, audioFiles, idx, results, fileLog>>

ReviewProcessAudioReturns ==
    /\ cmd = "audioReview" /\ pc = "awaitProcessAudio"
    /\ \E audioResult \in AudioResults :
        /\ acquisition' = Returned(audioResult)
        /\ timer' = StopCountdown(timer)
        /\ IF Cancelled(audioResult)
           THEN /\ ReviewAfterTry(TRUE,
                        NewCancellationError("Audio review cancelled by user"),
                        EmptyString, calls \o StopCalls(timer))
                /\ UNCHANGED audioPath
           ELSE /\ audioPath' = Append(audioPath,
                        ResolveAudioFilePath(runConfig, runConfig.audioReview, audioResult))
                /\ calls' = (calls \o StopCalls(timer)) \o <<"transcribeAudio">>
                /\ pc' = "awaitTranscribe"
                /\ UNCHANGED <<audioContext, delegated, outcome>>
    /\ UNCHANGED <<cmd, runConfig, transcription, downstream, listing, storage,
                   homedir, device, audioFiles, idx, results, fileLog>>

ReviewProcessAudioRaises ==
    /\ cmd = "audioReview" /\ pc = "awaitProcessAudio"
    /\ \E error \in ThrownErrors("processAudio") :
        /\ acquisition' = Answer("raised", NoAudioResult, error)
        /\ timer' = StopCountdown(timer)
        /\ ReviewAfterTry(TRUE, error, EmptyString, calls \o StopCalls(timer))
    /\ UNCHANGED <<cmd, runConfig, transcription, audioPath, downstream,
                   listing, storage, homedir, device, audioFiles, idx, results,
                   fileLog>>

ReviewTranscribeReturns ==
    /\ cmd = "audioReview" /\ pc = "awaitTranscribe"
    /\ \E t \in Transcriptions :
        /\ transcription' = Returned(t)
        /\ ReviewAfterTry(InvalidTranscription(t), InvalidTranscriptionError,
                          ContextOf(t.text), calls)
    /\ UNCHANGED <<cmd, runConfig, timer, acquisition, audioPath, downstream,
                   listing, storage, homedir, device, audioFiles, idx, results,
                   fileLog>>

ReviewTranscribeRaises ==
    /\ cmd = "audioReview" /\ pc = "awaitTranscribe"
    /\ \E error \in ThrownErrors("transcribeAudio") :
        /\ transcription' = Answer("raised", NoTranscription, error)
        /\ ReviewAfterTry(TRUE, error, EmptyString, calls)
    /\ UNCHANGED <<cmd, runConfig, timer, acquisition, audioPath, downstream,
                   listing, storage, homedir, device, audioFiles, idx, results,
                   fileLog>>

ReviewDelegateReturns ==
    /\ cmd = "audioReview" /\ pc = "awaitDownstream"
    /\ \E result \in DownstreamResults :
        /\ downstream' = Returned(result)
        /\ outcome' = Returned(result)
    /\ pc' = "done"
    /\ UNCHANGED <<cmd, runConfig, timer, calls, acquisition, transcription,
                   audioPath, audioContext, delegated, listing, storage,
                   homedir, device, audioFiles, idx, results, fileLog>>

ReviewDelegateRaises ==
    /\ cmd = "audioReview" /\ pc = "awaitDownstream"
    /\ \E error \in ThrownErrors("executeReview") :
        /\ downstream' = Raised(error)
        /\ outcome' = Raised(error)
    /\ pc' = "done"
    /\ UNCHANGED <<cmd, runConfig, timer, calls, acquisition, transcription,
                   audioPath, audioContext, delegated, listing, storage,
                   homedir, device, audioFiles, idx, results, fileLog>>

----------------------------------------------------------------------------
(* audio-review: directory batch mode *)

\* variant: an empty batch answers with an empty report
NoFilesAsEmptyReport == <<"Batch Audio Review Results (", "0", " files):\n\n">>

NoFilesResult == Str("No audio files found to process")

Separator == "\n\n---\n\n"

RECURSIVE Join(_, _)
\* Array.prototype.join
Join(strings, sep) ==
    IF strings = <<>> THEN EmptyString
    ELSE IF Len(strings) = 1 THEN strings[1]
    ELSE strings[1] \o <<sep>> \o Join(Tail(strings), sep)

\* `Batch Audio Review Results (${audioFiles.length} files):\n\n` +
\* results.join('\n\n---\n\n')
CombinedResults(files, res) ==
    <<"Batch Audio Review Results (", ToString(Len(files)), " files):\n\n">>
    \o Join(res, Separator)

\* `File: ${path.basename(audioFile)}\n${result}`
Section(audioFile, result) == <<"File: ">> \o Basename(audioFile) \o <<"\n">> \o result

\* `Failed to process ${path.basename(audioFilePath)}: ${error.message}`
FailedToProcess(audioFilePath, error) ==
    <<"Failed to process ">> \o Basename(audioFilePath) \o <<": ", error.message>>

\* `Audio Review from ${path.basename(audioFilePath)}:\n\n${audioContext.trim()}`
BatchNote(audioFilePath, context) ==
    <<"Audio Review from ">> \o Basename(audioFilePath) \o <<":\n\n">> \o Trim(context)

\* what a collaborator may raise while a batch file is processed
BatchErrors(origin) ==
    { Err("Error", "Error", "boom", origin),
      Err("CancellationError", "CancellationError", "cancelled", origin) }

\* the file the batch loop is at: audioFiles[i]
CurrentFile == audioFiles[idx + 1]

\* mutant of BatchPush: a file whose processing failed ends the batch with
\* the error instead of a section
BatchPushStopsOnFailure(result, calls2, log) ==
    IF log.transcription.kind = "raised" \/ log.downstream.kind = "raised"
    THEN /\ pc' = "done"
         /\ outcome' = Raised(IF log.downstream.kind = "raised" THEN log.downstream.error
                              ELSE log.transcription.error)
         /\ calls' = calls2
         /\ UNCHANGED <<results, fileLog, idx, audioPath>>
    ELSE /\ results' = Append(results, Section(CurrentFile, result))
         /\ fileLog' = Append(fileLog, log)
         /\ idx' = idx + 1
         /\ IF idx + 1 < Len(audioFiles)
            THEN /\ calls' = Append(calls2, "transcribeAudio")
                 /\ audioPath' = Append(audioPath, audioFiles[idx + 2])
                 /\ pc' = "awaitBatchTranscribe"
                 /\ UNCHANGED outcome
            ELSE /\ calls' = calls2
                 /\ pc' = "done"
                 /\ outcome' = Returned(CombinedResults(audioFiles, results'))
                 /\ UNCHANGED audioPath

\* variant: the result of a file is dropped when the transcription of the
\* file before it raised
BatchPushAfterFailureDrops(result, calls2, log) ==
    /\ results' = Append(results,
            Section(CurrentFile,
                    IF fileLog # <<>> /\ fileLog[Len(fileLog)].transcription.kind = "raised"
                    THEN EmptyString
                    ELSE result))
    /\ fileLog' = Append(fileLog, log)
    /\ idx' = idx + 1
    /\ IF idx + 1 < Len(audioFiles)
       THEN /\ calls' = Append(calls2, "transcribeAudio")
            /\ audioPath' = Append(audioPath, audioFiles[idx + 2])
            /\ pc' = "awaitBatchTranscribe"
            /\ UNCHANGED outcome
       ELSE /\ calls' = calls2
            /\ pc' = "done"
            /\ outcome' = Returned(CombinedResults(audioFiles, results'))
            /\ UNCHANGED audioPath

\* processSingleAudioFile returned result for audioFiles[i]: push its section
\* and go round the loop, to the next file's transcribeAudio or to the return
\* variant: the loop runs while i < audioFiles.length - 1
BatchPushSkipsLast(result, calls2, log) ==
    /\ results' = Append(results, Section(CurrentFile, result))
    /\ fileLog' = Append(fileLog, log)
    /\ idx' = idx + 1
    /\ IF idx + 2 < Len(audioFiles)
       THEN /\ calls' = Append(calls2, "transcribeAudio")
            /\ audioPath' = Append(audioPath, audioFiles[idx + 2])
            /\ pc' = "awaitBatchTranscribe"
            /\ UNCHANGED outcome
       ELSE /\ calls' = calls2
            /\ pc' = "done"
            /\ outcome' = Returned(CombinedResults(audioFiles, results'))
            /\ UNCHANGED audioPath

BatchPush(result, calls2, log) ==
    /\ results' = Append(results, Section(CurrentFile, result))
    /\ fileLog' = Append(fileLog, log)
    /\ idx' = idx + 1
    /\ IF idx + 1 < Len(audioFiles)
       THEN /\ calls' = Append(calls2, "transcribeAudio")
            /\ audioPath' = Append(audioPath, audioFiles[idx + 2])
            /\ pc' = "awaitBatchTranscribe"
            /\ UNCHANGED outcome
       ELSE /\ calls' = calls2
            /\ pc' = "done"
            /\ outcome' = Returned(CombinedResults(audioFiles, results'))
            /\ UNCHANGED audioPath

\* variant: a discovery failure is taken for an empty directory
ReviewDiscoverFailsSwallowed ==
    /\ cmd = "audioReview" /\ pc = "start"
    /\ BatchMode(runConfig)
    /\ ~IsDryRun(runConfig)
    /\ \E how \in {"unreadable", "isDirectoryReadable", "listFiles"} :
        /\ calls' = calls \o (IF how = "listFiles"
                              THEN <<"isDirectoryReadable", "listFiles">>
                              ELSE <<"isDirectoryReadable">>)
        /\ storage' = how
    /\ outcome' = Returned(NoFilesResult)
    /\ pc' = "done"
    /\ UNCHANGED <<cmd, runConfig, timer, acquisition, transcription, audioPath,
                   audioContext, delegated, downstream, listing, homedir, device,
                   audioFiles, idx, results, fileLog>>

\* discoverAudioFiles throws: the directory is not readable, or the storage
\* raises; execute's catch block throws the error on
ReviewDiscoverFails ==
    /\ cmd = "audioReview" /\ pc = "start"
    /\ BatchMode(runConfig)
    /\ ~IsDryRun(runConfig)
    /\ \E how \in {"unreadable", "isDirectoryReadable", "listFiles"} :
        /\ calls' = calls \o (IF how = "listFiles"
                              THEN <<"isDirectoryReadable", "listFiles">>
                              ELSE <<"isDirectoryReadable">>)
        /\ outcome' = Raised(IF how = "unreadable"
                             THEN NewError("Directory not readable: /recs")
                             ELSE Err("Error", "Error", "boom", how))
        /\ storage' = how
    /\ pc' = "done"
    /\ UNCHANGED <<cmd, runConfig, timer, acquisition, transcription, audioPath,
                   audioContext, delegated, downstream, listing, homedir, device,
                   audioFiles, idx, results, fileLog>>

\* variant: the transcription of every discovered file is started at once
ReviewDiscoverStartsAll ==
    /\ cmd = "audioReview" /\ pc = "start"
    /\ BatchMode(runConfig)
    /\ ~IsDryRun(runConfig)
    /\ \E allFiles \in Listings(BatchEntries, MaxListing) :
        LET found == DiscoverAudioFiles(runConfig.audioReview.directory[1], allFiles)
        IN  /\ listing' = allFiles
            /\ storage' = "listed"
            /\ audioFiles' = found
            /\ IF Len(found) = 0
               THEN /\ calls' = calls \o <<"isDirectoryReadable", "listFiles">>
                    /\ outcome' = Returned(NoFilesResult)
                    /\ pc' = "done"
                    /\ UNCHANGED audioPath
               ELSE /\ calls' = calls \o <<"isDirectoryReadable", "listFiles">>
                                 \o [i \in 1..Len(found) |-> "transcribeAudio"]
                    /\ audioPath' = audioPath \o found
                    /\ pc' = "awaitBatchTranscribe"
                    /\ UNCHANGED outcome
    /\ UNCHANGED <<cmd, runConfig, timer, acquisition, transcription, audioContext,
                   delegated, downstream, idx, results, fileLog, homedir, device>>

\* variant: the first file goes through processAudio before transcribeAudio
ReviewDiscoverAcquiresFirst ==
    /\ cmd = "audioReview" /\ pc = "start"
    /\ BatchMode(runConfig)
    /\ ~IsDryRun(runConfig)
    /\ \E allFiles \in Listings(BatchEntries, MaxListing) :
        LET found == DiscoverAudioFiles(runConfig.audioReview.directory[1], allFiles)
        IN  /\ listing' = allFiles
            /\ storage' = "listed"
            /\ audioFiles' = found
            /\ IF Len(found) = 0
               THEN /\ calls' = calls \o <<"isDirectoryReadable", "listFiles">>
                    /\ outcome' = Returned(NoFilesResult)
                    /\ pc' = "done"
                    /\ UNCHANGED audioPath
               ELSE /\ calls' = calls \o <<"isDirectoryReadable", "listFiles",
                                           "processAudio", "transcribeAudio">>
                    /\ audioPath' = Append(audioPath, found[1])
                    /\ pc' = "awaitBatchTranscribe"
                    /\ UNCHANGED outcome
    /\ UNCHANGED <<cmd, runConfig, timer, acquisition, transcription, audioContext,
                   delegated, downstream, idx, results, fileLog, homedir, device>>

\* discoverAudioFiles returns; no file: return; else the loop's first
\* processSingleAudioFile runs up to its transcribeAudio
ReviewDiscover ==
    /\ cmd = "audioReview" /\ pc = "start"
    /\ BatchMode(runConfig)
    /\ ~IsDryRun(runConfig)
    /\ \E allFiles \in Listings(BatchEntries, MaxListing) :
        LET found == DiscoverAudioFiles(runConfig.audioReview.directory[1], allFiles)
        IN  /\ listing' = allFiles
            /\ storage' = "listed"
            /\ audioFiles' = found
            /\ IF Len(found) = 0
               THEN /\ calls' = calls \o <<"isDirectoryReadable", "listFiles">>
                    /\ outcome' = Returned(NoFilesResult)
                    /\ pc' = "done"
                    /\ UNCHANGED audioPath
               ELSE /\ calls' = calls \o <<"isDirectoryReadable", "listFiles",
                                           "transcribeAudio">>
                    /\ audioPath' = Append(audioPath, found[1])
                    /\ pc' = "awaitBatchTranscribe"
                    /\ UNCHANGED outcome
    /\ UNCHANGED <<cmd, runConfig, timer, acquisition, transcription, audioContext,
                   delegated, downstream, idx, results, fileLog, homedir, device>>

\* variant: a blank transcript is handed to the review command like any other
BatchTranscribeReturnsDelegatesBlank ==
    /\ cmd = "audioReview" /\ pc = "awaitBatchTranscribe"
    /\ \E t \in Transcriptions :
        /\ transcription' = Returned(t)
        /\ IF InvalidTranscription(t)
           THEN /\ BatchPush(FailedToProcess(CurrentFile, InvalidTranscriptionError), calls,
                             [transcription |-> Returned(t), downstream |-> NoAnswer])
                /\ UNCHANGED <<audioContext, delegated>>
           ELSE /\ audioContext' = t.text
                /\ delegated' = Append(delegated,
                        ReviewConfig(runConfig, BatchNote(CurrentFile, t.text)))
                /\ calls' = Append(calls, "executeReview")
                /\ pc' = "awaitBatchReview"
                /\ UNCHANGED <<audioPath, outcome, idx, results, fileLog>>
    /\ UNCHANGED <<cmd, runConfig, timer, acquisition, downstream, listing, storage,
                   homedir, device, audioFiles>>

BatchTranscribeReturns ==
    /\ cmd = "audioReview" /\ pc = "awaitBatchTranscribe"
    /\ \E t \in Transcriptions :
        /\ transcription' = Returned(t)
        /\ IF InvalidTranscription(t)
           THEN /\ BatchPush(FailedToProcess(CurrentFile, InvalidTranscriptionError), calls,
                             [transcription |-> Returned(t), downstream |-> NoAnswer])
                /\ UNCHANGED <<audioContext, delegated>>
           ELSE IF Trim(t.text) = EmptyString
           THEN /\ BatchPush(EmptyString, calls,
                             [transcription |-> Returned(t), downstream |-> NoAnswer])
                /\ audioContext' = t.text
                /\ UNCHANGED delegated
           ELSE /\ audioContext' = t.text
                /\ delegated' = Append(delegated,
                        ReviewConfig(runConfig, BatchNote(CurrentFile, t.text)))
                /\ calls' = Append(calls, "executeReview")
                /\ pc' = "awaitBatchReview"
                /\ UNCHANGED <<audioPath, outcome, idx, results, fileLog>>
    /\ UNCHANGED <<cmd, runConfig, timer, acquisition, downstream, listing,
                   storage, homedir, device, audioFiles>>

BatchTranscribeRaises ==
    /\ cmd = "audioReview" /\ pc = "awaitBatchTranscribe"
    /\ \E error \in BatchErrors("transcribeAudio") :
        /\ transcription' = Answer("raised", NoTranscription, error)
        /\ BatchPush(FailedToProcess(CurrentFile, error), calls,
                     [transcription |-> Answer("raised", NoTranscription, error),
                      downstream |-> NoAnswer])
    /\ UNCHANGED <<cmd, runConfig, timer, acquisition, audioContext, delegated,
                   downstream, listing, storage, homedir, device, audioFiles>>

BatchReviewReturns ==
    /\ cmd = "audioReview" /\ pc = "awaitBatchReview"
    /\ \E result \in DownstreamResults :
        /\ downstream' = Returned(result)
        /\ BatchPush(result, calls,
                     [transcription |-> transcription, downstream |-> Returned(result)])
    /\ UNCHANGED <<cmd, runConfig, timer, acquisition, transcription, audioContext,
                   delegated, listing, storage, homedir, device, audioFiles>>

BatchReviewRaises ==
    /\ cmd = "audioReview" /\ pc = "awaitBatchReview"
    /\ \E error \in BatchErrors("executeReview") :
        /\ downstream' = Raised(error)
        /\ BatchPush(FailedToProcess(CurrentFile, error), calls,
                     [transcription |-> transcription, downstream |-> Raised(error)])
    /\ UNCHANGED <<cmd, runConfig, timer, acquisition, transcription, audioContext,
                   delegated, listing, storage, homedir, device, audioFiles>>

----------------------------------------------------------------------------
(* The specification: one invocation of audioCommit or audioReview *)

Next ==
    \/ CommitDryRun
    \/ CommitAcquire
    \/ CommitProcessAudioReturns
    \/ CommitProcessAudioRaises
    \/ CommitTranscribeReturns
    \/ CommitTranscribeRaises
    \/ CommitDelegateReturns
    \/ CommitDelegateRaises
    \/ ReviewDryRun
    \/ ReviewAcquire
    \/ ReviewProcessAudioReturns
    \/ ReviewProcessAudioRaises
    \/ ReviewTranscribeReturns
    \/ ReviewTranscribeRaises
    \/ ReviewDelegateReturns
    \/ ReviewDelegateRaises
    \/ ReviewDiscoverFails
    \/ ReviewDiscover
    \/ BatchTranscribeReturns
    \/ BatchTranscribeRaises
    \/ BatchReviewReturns
    \/ BatchReviewRaises
    \/ TimerSettles

Spec == Init /\ [][Next]_vars

\* every await of execute is resumed: each collaborator call returns or
\* raises, and the statements between two awaits are executed; nothing is
\* required of the countdown's promise, which no statement awaits
Fairness ==
    /\ WF_vars(CommitDryRun \/ CommitAcquire \/ ReviewDryRun \/ ReviewAcquire)
    /\ WF_vars(ReviewDiscover \/ ReviewDiscoverFails)
    /\ WF_vars(CommitProcessAudioReturns \/ CommitProcessAudioRaises
               \/ ReviewProcessAudioReturns \/ ReviewProcessAudioRaises)
    /\ WF_vars(CommitTranscribeReturns \/ CommitTranscribeRaises
               \/ ReviewTranscribeReturns \/ ReviewTranscribeRaises
               \/ BatchTranscribeReturns \/ BatchTranscribeRaises)
    /\ WF_vars(CommitDelegateReturns \/ CommitDelegateRaises
               \/ ReviewDelegateReturns \/ ReviewDelegateRaises
               \/ BatchReviewReturns \/ BatchReviewRaises)

SpecFair == Init /\ [][Next]_vars /\ Fairness

----------------------------------------------------------------------------
(* The discovery specification: discoverAudioFiles on every listing of at   *)
(* most MaxEntries entries                                                  *)

InitDiscover ==
    /\ Init
    /\ cmd = "audioReview"
    /\ runConfig.dryRun = FALSE
    /\ runConfig.audioReview.directory = Some(Directory)
    /\ runConfig.audioReview.file = None
    /\ runConfig.audioReview.maxRecordingTime = None
    /\ runConfig.review.note = None

\* discoverAudioFiles(directory) returns to execute
Discover ==
    /\ cmd = "audioReview" /\ pc = "start"
    /\ BatchMode(runConfig)
    /\ ~IsDryRun(runConfig)
    /\ \E allFiles \in Listings(Entries, MaxEntries) :
        /\ listing' = allFiles
        /\ audioFiles' = DiscoverAudioFiles(runConfig.audioReview.directory[1], allFiles)
    /\ storage' = "listed"
    /\ calls' = calls \o <<"isDirectoryReadable", "listFiles">>
    /\ pc' = "discovered"
    /\ UNCHANGED <<cmd, runConfig, timer, acquisition, transcription, audioPath,
                   audioContext, delegated, downstream, outcome, idx, results, fileLog,
                   homedir, device>>

NextDiscover == Discover

SpecDiscover == InitDiscover /\ [][NextDiscover]_vars

----------------------------------------------------------------------------
(* select-audio: one invocation of selectAudio *)

HomeDirectoryPhrase == "Failed to determine home directory"

\* error messages: strings of fragments, one of them the phrase the catch
\* block looks for
MessageFragments == {HomeDirectoryPhrase, "x"}
Messages == SeqsUpTo(MessageFragments, MaxMessageLen)

\* what a collaborator of selectAudio throws: an Error or a TypeError with any
\* message, the empty one included, or a plain object without a message
SelectThrown(origin) ==
    {Err(c, c, Some(m), origin) : c \in {"Error", "TypeError"}, m \in Messages}
    \cup {Err("Object", "", None, origin)}

\* error.toString(): Error.prototype.toString, or Object.prototype.toString
ErrorToString(error) ==
    IF error.class = "Object" THEN <<"[object Object]">>
    ELSE IF error.message[1] = EmptyString THEN <<error.name>>
    ELSE <<error.name, ": ">> \o error.message[1]

\* ${error.message} in a template literal
MessageInTemplate(error) ==
    IF error.message = None THEN <<"undefined">> ELSE error.message[1]

Home == <<"/", "h">>

\* os.homedir() returns the home directory or throws a system error
HomedirAnswers ==
    {Returned(Home)}
    \cup {Raised(e) : e \in {t \in SelectThrown("os.homedir") :
                                /\ t.class = "Error"
                                /\ t.message # Some(EmptyString)}}

\* selectAndConfigureAudioDevice resolves to its report
DeviceResults == {Str("Audio device configured successfully"), EmptyString}

SelectConfigs == [dryRun : BOOLEAN, debug : {None, Some(TRUE), Some(FALSE)}]

InitSelect ==
    /\ cmd = "selectAudio"
    /\ runConfig \in SelectConfigs
    /\ pc = "start"
    /\ timer = NoTimer
    /\ calls = <<>>
    /\ acquisition = Answer("none", NoAudioResult, NoError)
    /\ transcription = Answer("none", NoTranscription, NoError)
    /\ audioPath = <<>>
    /\ audioContext = EmptyString
    /\ delegated = <<>>
    /\ downstream = NoAnswer
    /\ outcome = NoAnswer
    /\ listing = <<>>
    /\ audioFiles = <<>>
    /\ idx = 0
    /\ results = <<>>
    /\ fileLog = <<>>
    /\ storage = "none"
    /\ homedir = NoAnswer
    /\ device = NoAnswer

\* getUnplayableConfigPath(): the path of the device file, or a new Error
\* when os.homedir() throws
GetUnplayableConfigPath(home) ==
    IF home.kind = "raised"
    THEN Raised(NewError(<<HomeDirectoryPhrase, ": ">> \o MessageInTemplate(home.error)))
    ELSE Returned(PathJoin(PathJoin(home.result, <<".unplayable">>),
                           <<"audio-device.json">>))

SelectDryRunResult == <<"Audio device selection completed (", "dry run", ")">>

\* variant: the dry run throws the error of getUnplayableConfigPath on
SelectDryRunOutcomeRaises(configPath) ==
    IF configPath.kind = "returned"
    THEN Returned(SelectDryRunResult)
    ELSE Raised(configPath.error)

\* the dry-run block: the try returns the preview, the catch warns and returns
\* the same preview
SelectDryRunOutcome(configPath) ==
    IF configPath.kind = "returned"
    THEN Returned(SelectDryRunResult)
    ELSE Returned(SelectDryRunResult)

\* variant: the catch block throws the error it caught
SelectCatchRethrows(error) == error

\* the catch block of the live path: the error execute throws
SelectCatch(error) ==
    IF TruthyStr(error.message) /\ Contains(error.message[1], HomeDirectoryPhrase)
    THEN NewError(<<HomeDirectoryPhrase, ": ">> \o MessageInTemplate(error))
    ELSE LET errorMessage == OrElse(error.message, ErrorToString(error))
         IN  NewError(<<"Audio device selection failed: ">> \o errorMessage)

\* execute with dryRun set
SelectDryRun ==
    /\ cmd = "selectAudio" /\ pc = "start"
    /\ IsDryRun(runConfig)
    /\ \E home \in HomedirAnswers :
        /\ homedir' = home
        /\ outcome' = SelectDryRunOutcome(GetUnplayableConfigPath(home))
    /\ calls' = Append(calls, "os.homedir")
    /\ pc' = "done"
    /\ UNCHANGED <<cmd, runConfig, timer, acquisition, transcription, audioPath,
                   audioContext, delegated, downstream, listing, storage, device,
                   audioFiles, idx, results, fileLog>>

\* execute, live, up to the await of selectAndConfigureAudioDevice, or to the
\* catch block when os.homedir() throws
SelectStart ==
    /\ cmd = "selectAudio" /\ pc = "start"
    /\ ~IsDryRun(runConfig)
    /\ \E home \in HomedirAnswers :
        /\ homedir' = home
        /\ IF home.kind = "raised"
           THEN /\ calls' = Append(calls, "os.homedir")
                /\ outcome' = Raised(SelectCatch(home.error))
                /\ pc' = "done"
                /\ UNCHANGED delegated
           ELSE /\ calls' = calls \o <<"os.homedir", "selectAndConfigureAudioDevice">>
                /\ delegated' = Append(delegated,
                        [preferencesDir |-> PathJoin(home.result, <<".unplayable">>),
                         debug |-> runConfig.debug])
                /\ pc' = "awaitSelect"
                /\ UNCHANGED outcome
    /\ UNCHANGED <<cmd, runConfig, timer, acquisition, transcription, audioPath,
                   audioContext, downstream, listing, storage, device,
                   audioFiles, idx, results, fileLog>>

\* selectAndConfigureAudioDevice resolves: execute returns its result
SelectDeviceReturns ==
    /\ cmd = "selectAudio" /\ pc = "awaitSelect"
    /\ \E result \in DeviceResults :
        /\ device' = Returned(result)
        /\ outcome' = Returned(result)
    /\ pc' = "done"
    /\ UNCHANGED <<cmd, runConfig, timer, calls, acquisition, transcription, audioPath,
                   audioContext, delegated, downstream, listing, storage, homedir,
                   audioFiles, idx, results, fileLog>>

\* selectAndConfigureAudioDevice rejects: the catch block throws a new Error
SelectDeviceRaises ==
    /\ cmd = "selectAudio" /\ pc = "awaitSelect"
    /\ \E error \in SelectThrown("selectAndConfigureAudioDevice") :
        /\ device' = Raised(error)
        /\ outcome' = Raised(SelectCatch(error))
    /\ pc' = "done"
    /\ UNCHANGED <<cmd, runConfig, timer, calls, acquisition, transcription, audioPath,
                   audioContext, delegated, downstream, listing, storage, homedir,
                   audioFiles, idx, results, fileLog>>

NextSelect ==
    \/ SelectDryRun
    \/ SelectStart
    \/ SelectDeviceReturns
    \/ SelectDeviceRaises

SpecSelect == InitSelect /\ [][NextSelect]_vars

----------------------------------------------------------------------------
(* Vocabulary of the claims *)

\* the invocation is a single-file/recording one (not a directory batch)
SingleMode ==
    \/ cmd = "audioCommit"
    \/ runConfig.audioReview.directory = None
    \/ runConfig.audioReview.directory = Some(EmptyString)

Live == runConfig.dryRun = FALSE

\* the options block of the invoked command
Options == IF cmd = "audioCommit" THEN runConfig.audioCommit ELSE runConfig.audioReview

\* the free-text field of the invoked command in the caller's config
ExistingFreeText ==
    IF cmd = "audioCommit" THEN runConfig.commit.direction ELSE runConfig.review.note

\* the free-text field of a config handed to the downstream command
FreeTextOf(cfg) == IF cmd = "audioCommit" THEN cfg.commit.direction ELSE cfg.review.note

\* the number of calls of the downstream command so far
DownstreamCalls ==
    Cardinality({i \in 1..Len(calls) : calls[i] \in {"executeCommit", "executeReview"}})

Called(name) == \E i \in 1..Len(calls) : calls[i] = name

\* an error that signals cancellation: of one of the two cancellation
\* classes, or carrying the legacy name
CancellationSignal(e) ==
    \/ e.class \in {"CancellationError", "UserCancellationError"}
    \/ e.name \in {"CancellationError", "UserCancellationError"}

\* the pre-existing free text if it is non-empty, else ''
FallbackText ==
    IF ExistingFreeText # None /\ ExistingFreeText[1] # EmptyString
    THEN ExistingFreeText[1]
    ELSE EmptyString

----------------------------------------------------------------------------
(* C1 *)

\* C1: with dryRun = true, run calls no collaborator (no processAudio, no
\* countdown timer, no directory discovery, no transcribeAudio, no downstream
\* command) and returns a string containing 'DRY RUN'; for audioCommit the
\* string also contains 'transcribe'.
C1_DryRunCallsNothing ==
    runConfig.dryRun = TRUE =>
        /\ calls = <<>>
        /\ timer.created = 0 /\ timer.started = 0
        /\ audioPath = <<>>
        /\ delegated = <<>>
        /\ listing = <<>> /\ audioFiles = <<>>
        /\ outcome.kind # "raised"
        /\ pc = "done" =>
            /\ outcome.kind = "returned"
            /\ Contains(outcome.result, "DRY RUN")
            /\ cmd = "audioCommit" => Contains(outcome.result, "transcribe")

\* a dry run of audioReview with a directory has returned
C1_Witness ==
    /\ runConfig.dryRun = TRUE
    /\ cmd = "audioReview"
    /\ runConfig.audioReview.directory = Some(Directory)
    /\ pc = "done"
    /\ outcome.kind = "returned"

----------------------------------------------------------------------------
(* C2 *)

RecognisedCancellation(e) ==
    IF cmd = "audioCommit"
    THEN e.class \in {"CancellationError", "UserCancellationError"}
         \/ e.name = "CancellationError"
    ELSE e.name = "CancellationError"

----------------------------------------------------------------------------
(* C3 *)

\* C3: when processAudio returns cancelled = true in single-file/recording
\* mode, run raises a cancellation error, transcribeAudio is never called, no
\* fallback happens and the downstream command is never invoked.
C3_CancelledResultRaises ==
    (SingleMode /\ acquisition.kind = "returned"
                /\ acquisition.result.cancelled = Some(TRUE)) =>
        /\ pc = "done"
        /\ outcome.kind = "raised"
        /\ outcome.error.class \in {"CancellationError", "UserCancellationError"}
        /\ ~Called("transcribeAudio")
        /\ audioPath = <<>>
        /\ transcription.kind = "none"
        /\ DownstreamCalls = 0
        /\ delegated = <<>>

\* audioCommit while recording: processAudio returned cancelled = true
C3_Witness ==
    /\ cmd = "audioCommit"
    /\ runConfig.audioCommit.file = None
    /\ acquisition.kind = "returned"
    /\ acquisition.result.cancelled = Some(TRUE)
    /\ pc = "done"
    /\ outcome.kind = "raised"

----------------------------------------------------------------------------
(* C4 *)

\* processAudio or transcribeAudio raised an error that is no cancellation
\* signal
RecoverableFailure ==
    \/ acquisition.kind = "raised" /\ ~CancellationSignal(acquisition.error)
    \/ transcription.kind = "raised" /\ ~CancellationSignal(transcription.error)

\* C4: in single-file/recording mode, when processAudio or transcribeAudio
\* fails with an error that is not a cancellation signal, the downstream
\* command is still invoked, its free-text field holding the pre-existing value
\* of the config, else '', and run raises only if the downstream command does.
C4_FailureFallsBack ==
    (SingleMode /\ RecoverableFailure) =>
        /\ Len(delegated) = 1
        /\ DownstreamCalls = 1
        /\ audioContext = EmptyString
        /\ FreeTextOf(delegated[1]) = FallbackText
        /\ outcome.kind = "raised" => downstream.kind = "raised"
        /\ (pc = "done" /\ downstream.kind = "returned") => outcome.kind = "returned"

\* audioCommit: transcribeAudio raised a plain error, the commit command was
\* invoked with the pre-existing direction and run returned
C4_Witness ==
    /\ cmd = "audioCommit"
    /\ transcription.kind = "raised"
    /\ transcription.error.class = "Error"
    /\ transcription.error.name = "Error"
    /\ runConfig.commit.direction = Some(Str("old"))
    /\ Len(delegated) = 1
    /\ delegated[1].commit.direction = Str("old")
    /\ pc = "done"
    /\ outcome.kind = "returned"

----------------------------------------------------------------------------
(* C5 *)

BatchLive ==
    /\ cmd = "audioReview"
    /\ runConfig.audioReview.directory = Some(Directory)
    /\ Live

RECURSIVE Split(_, _)
\* the strings between the occurrences of the fragment sep in s
Split(s, sep) ==
    IF \A i \in 1..Len(s) : s[i] # sep THEN <<s>>
    ELSE LET k == CHOOSE i \in 1..Len(s) : s[i] = sep /\ \A j \in 1..(i - 1) : s[j] # sep
         IN  <<SubSeq(s, 1, k - 1)>> \o Split(SubSeq(s, k + 1, Len(s)), sep)

\* the sections of an aggregate report: what follows its three header fragments
SectionsOf(report) == Split(SubSeq(report, 4, Len(report)), Separator)

\* the label of a section "File: <label>\n<content>"
LabelOf(section) == SubSeq(Split(section, "\n")[1], 2, Len(Split(section, "\n")[1]))

\* the content of a section
ContentOf(section) == SubSeq(section, Len(Split(section, "\n")[1]) + 2, Len(section))

\* processing the i-th discovered file failed
FileFailed(i) ==
    \/ fileLog[i].transcription.kind = "raised"
    \/ fileLog[i].transcription.kind = "returned"
        /\ fileLog[i].transcription.result.shape # "object"
    \/ fileLog[i].downstream.kind = "raised"

\* a <= b in the lexicographic order of code units
LexLeq(a, b) ==
    \/ a = b
    \/ Len(a) < Len(b) /\ SubSeq(b, 1, Len(a)) = a
    \/ \E k \in 1..Len(a) :
        /\ k <= Len(b)
        /\ a[k] # b[k]
        /\ \A j \in 1..(k - 1) : a[j] = b[j]
        /\ CharCode(a[k]) < CharCode(b[k])

\* C5: in batch mode no failure while a file is processed, cancellation
\* included, stops the batch or makes run raise: the report has one labelled
\* section per discovered file, in the sorted discovery order, its header
\* states the number of discovered files, and a failed file's section carries
\* a failure message.
C5_BatchIsolatesFailures ==
    (BatchLive /\ audioFiles # <<>>) =>
        /\ outcome.kind # "raised"
        /\ Len(results) = Len(fileLog)
        /\ pc = "done" =>
            /\ outcome.kind = "returned"
            /\ Len(fileLog) = Len(audioFiles)
            /\ outcome.result[1] = "Batch Audio Review Results ("
            /\ outcome.result[2] = ToString(Len(audioFiles))
            /\ outcome.result[3] = " files):\n\n"
            /\ LET sections == SectionsOf(outcome.result)
               IN  /\ Len(sections) = Len(audioFiles)
                   /\ \A i \in 1..Len(audioFiles) :
                        /\ sections[i][1] = "File: "
                        /\ LabelOf(sections[i]) = Basename(audioFiles[i])
                        /\ FileFailed(i) =>
                            /\ ContentOf(sections[i]) # EmptyString
                            /\ ContentOf(sections[i])[1] = "Failed to process "
                        /\ \A j \in 1..Len(audioFiles) :
                            i < j => LexLeq(audioFiles[i], audioFiles[j])

\* two files were discovered, the first one's transcription raised a
\* cancellation error, the second one was reviewed, and run returned
C5_Witness ==
    /\ BatchLive
    /\ Len(audioFiles) = 2
    /\ pc = "done"
    /\ outcome.kind = "returned"
    /\ Len(fileLog) = 2
    /\ fileLog[1].transcription.kind = "raised"
    /\ fileLog[1].transcription.error.class = "CancellationError"
    /\ fileLog[2].downstream.kind = "returned"

----------------------------------------------------------------------------
(* C6 *)

\* the number of calls of countdownTimer.stop() so far
StopCalled == Cardinality({i \in 1..Len(calls) : calls[i] = "stop"})

\* C6: a countdown timer that was started is stopped exactly once by the time
\* the acquisition ends, however it ends: processAudio returned, returned
\* cancelled = true, or raised.
C6_TimerStoppedOnce ==
    /\ timer.stopped = StopCalled
    /\ timer.started > 0 =>
        /\ acquisition.kind = "none" => timer.stopped = 0
        /\ acquisition.kind # "none" => timer.stopped = 1

\* a timer was started, processAudio raised, and the timer was stopped
C6_Witness ==
    /\ timer.started = 1
    /\ acquisition.kind = "raised"
    /\ timer.stopped = 1
    /\ StopCalled = 1

----------------------------------------------------------------------------
(* C7 *)

AllowedExtensions == {AUDIO_EXTENSIONS[i] : i \in 1..Len(AUDIO_EXTENSIONS)}

\* the entry has an extension (the part from its last dot, which is not its
\* first character) that is, lower-cased, in the allow-list
Eligible(entry) ==
    \E k \in 2..Len(entry) :
        /\ entry[k] = "."
        /\ \A j \in (k + 1)..Len(entry) : entry[j] # "."
        /\ ToLowerCase(SubSeq(entry, k, Len(entry))) \in AllowedExtensions

\* C7: discoverAudioFiles returns exactly the entries whose extension is,
\* case-insensitively, in the allow-list, each joined with the directory,
\* sorted lexicographically by full path.
C7_DiscoveryFiltersAndSorts ==
    /\ \A i \in 1..Len(audioFiles) :
        \E j \in 1..Len(listing) :
            /\ Eligible(listing[j])
            /\ audioFiles[i] = Directory \o <<"/">> \o listing[j]
    /\ \A j \in 1..Len(listing) :
        Eligible(listing[j]) =>
            \E i \in 1..Len(audioFiles) : audioFiles[i] = Directory \o <<"/">> \o listing[j]
    /\ Len(audioFiles) = Cardinality({j \in 1..Len(listing) : Eligible(listing[j])})
    /\ \A i, j \in 1..Len(audioFiles) :
        i < j => audioFiles[i] # audioFiles[j] /\ LexLeq(audioFiles[i], audioFiles[j])

\* the listing b.wav, a.mp3, notes.txt was discovered as /recs/a.mp3, /recs/b.wav
C7_Witness ==
    /\ pc = "discovered"
    /\ listing = <<Entry_b_wav, Entry_a_mp3, Entry_notes_txt>>
    /\ audioFiles = << Directory \o <<"/">> \o Entry_a_mp3,
                       Directory \o <<"/">> \o Entry_b_wav >>

----------------------------------------------------------------------------
(* C8 *)

\* the transcript of a single-file/recording invocation: the text
\* transcribeAudio returned, '' when there is none
Transcript ==
    IF transcription.kind = "returned" /\ transcription.result.shape = "object"
    THEN transcription.result.text
    ELSE EmptyString

Blank(text) == \A i \in 1..Len(text) : IsWhiteSpace(text[i])

\* text without its leading and trailing white space
Stripped(text) ==
    LET inked == {i \in 1..Len(text) : ~IsWhiteSpace(text[i])}
    IN  IF inked = {} THEN EmptyString
        ELSE SubSeq(text, CHOOSE i \in inked : \A j \in inked : i <= j, SetMax(inked))

\* C8 as stated: the free-text field handed to the downstream command is the
\* transcript text when it is non-blank, otherwise the pre-existing value of
\* the field when non-empty, otherwise ''.
C8_FreeTextIsTranscript ==
    (SingleMode /\ Len(delegated) = 1) =>
        FreeTextOf(delegated[1]) = IF ~Blank(Transcript) THEN Transcript ELSE FallbackText

\* C8 amended: the free-text field handed to the downstream command is the
\* transcript text with its leading and trailing white space removed when the
\* transcript is non-blank, otherwise the pre-existing value of the field when
\* non-empty, otherwise ''.
C8_FreeTextIsTrimmedTranscript ==
    (SingleMode /\ Len(delegated) = 1) =>
        FreeTextOf(delegated[1]) =
            IF ~Blank(Transcript) THEN Stripped(Transcript) ELSE FallbackText

\* audioCommit with a file, a pre-existing direction and the transcript " h":
\* the commit command got the direction "h"
C8_Witness ==
    /\ cmd = "audioCommit"
    /\ runConfig.audioCommit.file = Some(AudioFile)
    /\ runConfig.commit.direction = Some(Str("old"))
    /\ transcription.kind = "returned"
    /\ transcription.result.shape = "object"
    /\ transcription.result.text = <<" ", "h">>
    /\ Len(delegated) = 1
    /\ delegated[1].commit.direction = <<"h">>

----------------------------------------------------------------------------
(* C9 *)

\* C9: a live single-file/recording invocation that does not end in a
\* cancellation invokes the downstream command exactly once, and the string
\* run returns is the string the downstream command returned.
C9_DelegatesOnceAndReturnsResult ==
    (SingleMode /\ Live) =>
        /\ Len(delegated) <= 1
        /\ DownstreamCalls = Len(delegated)
        /\ (pc = "done"
            /\ ~(outcome.kind = "raised" /\ CancellationSignal(outcome.error))) =>
                /\ Len(delegated) = 1
                /\ outcome.kind = "returned" =>
                    /\ downstream.kind = "returned"
                    /\ outcome.result = downstream.result

\* audioCommit with a file: the commit command returned and run returned
\* its string
C9_Witness ==
    /\ cmd = "audioCommit" /\ Live
    /\ runConfig.audioCommit.file = Some(AudioFile)
    /\ pc = "done"
    /\ downstream.kind = "returned"
    /\ downstream.result = Str("Mock message generated")
    /\ outcome.kind = "returned"
    /\ outcome.result = Str("Mock message generated")

----------------------------------------------------------------------------
(* C10 *)

\* the downstream command raised during this invocation
DownstreamRaised ==
    \/ downstream.kind = "raised"
    \/ \E i \in 1..Len(fileLog) : fileLog[i].downstream.kind = "raised"

\* C10 as stated: whenever the downstream command raises during a live
\* invocation, run raises the error to the caller.
C10_DownstreamErrorPropagates ==
    (Live /\ DownstreamRaised /\ pc = "done") => outcome.kind = "raised"

\* C10 amended: in single-file/recording mode an error raised by the
\* downstream command is raised by run, the same error value; in batch mode it
\* is caught by processSingleAudioFile and becomes the failure message of that
\* file's section, and run returns.
C10_DownstreamErrorPropagatesInSingleMode ==
    /\ (SingleMode /\ Live /\ downstream.kind = "raised") =>
        /\ pc = "done"
        /\ outcome.kind = "raised"
        /\ outcome.error = downstream.error
    /\ BatchLive =>
        /\ \A i \in 1..Len(fileLog) :
            fileLog[i].downstream.kind = "raised" =>
                ContentOf(results[i]) =
                    <<"Failed to process ">> \o Basename(audioFiles[i])
                    \o <<": ", fileLog[i].downstream.error.message>>
        /\ (pc = "done" /\ audioFiles # <<>>) => outcome.kind = "returned"

\* audioCommit: the commit command raised and run raised the same error
C10_Witness ==
    /\ cmd = "audioCommit" /\ Live
    /\ pc = "done"
    /\ downstream.kind = "raised"
    /\ downstream.error.origin = "executeCommit"
    /\ outcome.kind = "raised"
    /\ outcome.error = downstream.error

----------------------------------------------------------------------------
(* C11 *)

\* the storage did not produce a listing: the directory is not readable, or
\* isDirectoryReadable or listFiles raised
DiscoveryFailed == storage \in {"unreadable", "isDirectoryReadable", "listFiles"}

\* C11: in batch mode, when the directory is not readable or listing it
\* raises, run raises to the caller, and neither transcribeAudio nor the
\* downstream review command is called for any file.
C11_DiscoveryFailureRaises ==
    (BatchLive /\ DiscoveryFailed) =>
        /\ pc = "done"
        /\ outcome.kind = "raised"
        /\ storage = "unreadable" => outcome.error.origin = "execute"
        /\ storage # "unreadable" => outcome.error.origin = storage
        /\ ~Called("transcribeAudio")
        /\ ~Called("executeReview")
        /\ DownstreamCalls = 0
        /\ audioPath = <<>> /\ delegated = <<>>
        /\ audioFiles = <<>> /\ results = <<>>

\* listFiles raised in a live batch invocation and run raised that error
C11_Witness ==
    /\ BatchLive
    /\ storage = "listFiles"
    /\ Called("listFiles")
    /\ pc = "done"
    /\ outcome.kind = "raised"
    /\ outcome.error.origin = "listFiles"

----------------------------------------------------------------------------
(* C12 *)

\* discovery listed the directory and no entry is an audio file
NoFilesFound == storage = "listed" /\ audioFiles = <<>>

\* C12: in batch mode, when discovery finds zero eligible audio files, run
\* returns the result string 'No audio files found to process' without
\* raising, and neither transcribeAudio nor the downstream review command is
\* called.
C12_NoFilesReturnsExplicitResult ==
    (BatchLive /\ NoFilesFound) =>
        /\ pc = "done"
        /\ outcome.kind = "returned"
        /\ outcome.result = <<"No audio files found to process">>
        /\ ~Called("transcribeAudio")
        /\ ~Called("executeReview")
        /\ DownstreamCalls = 0
        /\ audioPath = <<>> /\ delegated = <<>> /\ results = <<>>

\* the directory holds an entry, but none with an audio extension
C12_Witness ==
    /\ BatchLive
    /\ NoFilesFound
    /\ listing = <<Entry_notes_txt>>
    /\ pc = "done"
    /\ outcome.kind = "returned"

----------------------------------------------------------------------------
(* C13 *)

\* C13: selectAudio with dryRun = true always succeeds: it returns a string
\* containing 'dry run', never calls selectAndConfigureAudioDevice, and does
\* not raise even when the home/config path cannot be determined.
C13_SelectDryRunAlwaysSucceeds ==
    (cmd = "selectAudio" /\ runConfig.dryRun = TRUE) =>
        /\ ~Called("selectAndConfigureAudioDevice")
        /\ delegated = <<>>
        /\ device.kind = "none"
        /\ outcome.kind # "raised"
        /\ pc \in {"start", "done"}
        /\ pc = "done" =>
            /\ outcome.kind = "returned"
            /\ Contains(outcome.result, "dry run")

\* a dry run in which os.homedir() threw has returned the preview
C13_Witness ==
    /\ cmd = "selectAudio"
    /\ runConfig.dryRun = TRUE
    /\ homedir.kind = "raised"
    /\ pc = "done"
    /\ outcome.kind = "returned"
    /\ Contains(outcome.result, "dry run")

----------------------------------------------------------------------------
(* C14 *)

\* selectAndConfigureAudioDevice raised an error in a live selectAudio
DeviceRaised ==
    /\ cmd = "selectAudio"
    /\ runConfig.dryRun = FALSE
    /\ device.kind = "raised"

\* C14 as stated: in live mode, when selectAndConfigureAudioDevice raises an
\* error that has a message, selectAudio raises a new error whose message
\* starts with 'Failed to determine home directory' when the original message
\* contains that phrase, and otherwise is 'Audio device selection failed: '
\* followed by the original message.
C14_WrapsOriginalMessage ==
    (DeviceRaised /\ device.error.message # None) =>
        /\ pc = "done"
        /\ outcome.kind = "raised"
        /\ outcome.error.origin = "execute"
        /\ IF Contains(device.error.message[1], HomeDirectoryPhrase)
           THEN outcome.error.message[1] = HomeDirectoryPhrase
           ELSE outcome.error.message =
                    <<"Audio device selection failed: ">> \o device.error.message[1]

\* C14 amended: in live mode, when selectAndConfigureAudioDevice raises,
\* selectAudio raises a new Error and returns no result.  Its message starts
\* with 'Failed to determine home directory' (and goes on with ': ' and the
\* original message) when the original message contains that phrase;
\* otherwise it is 'Audio device selection failed: ' followed by the original
\* message when that is non-empty, and by the string form of the thrown value
\* (error.toString(): 'Error' for an Error with an empty message) when the
\* message is empty or absent.
C14_WrapsMessageOrStringForm ==
    DeviceRaised =>
        /\ pc = "done"
        /\ outcome.kind = "raised"
        /\ outcome.result = EmptyString
        /\ outcome.error.class = "Error"
        /\ outcome.error.origin = "execute"
        /\ IF device.error.message # None
              /\ Contains(device.error.message[1], HomeDirectoryPhrase)
           THEN outcome.error.message =
                    <<HomeDirectoryPhrase, ": ">> \o device.error.message[1]
           ELSE IF device.error.message # None /\ device.error.message[1] # EmptyString
           THEN outcome.error.message =
                    <<"Audio device selection failed: ">> \o device.error.message[1]
           ELSE outcome.error.message =
                    <<"Audio device selection failed: ">>
                    \o (IF device.error.class = "Object"
                        THEN <<"[object Object]">>
                        ELSE <<device.error.name>>)

\* the device selector raised an Error with an empty message
C14_Witness ==
    /\ DeviceRaised
    /\ device.error.class = "Error"
    /\ device.error.message = Some(EmptyString)
    /\ pc = "done"
    /\ outcome.kind = "raised"
    /\ outcome.error.message = <<"Audio device selection failed: ", "Error">>

----------------------------------------------------------------------------
(* C15 *)

\* the number of calls of a collaborator so far
Count(name) == Cardinality({i \in 1..Len(calls) : calls[i] = name})

RECURSIVE Repeat(_, _)
\* n copies of the sequence s, one after the other
Repeat(s, n) == IF n = 0 THEN <<>> ELSE s \o Repeat(s, n - 1)

Reviewable(answer) ==
    /\ answer.kind = "returned"
    /\ answer.result.shape = "object"
    /\ ~Blank(answer.result.text)

RECURSIVE StagesOf(_)
\* the collaborator calls of the files whose processing has finished
StagesOf(log) ==
    IF log = <<>> THEN <<>>
    ELSE StagesOf(SubSeq(log, 1, Len(log) - 1))
         \o (IF Reviewable(log[Len(log)].transcription)
             THEN <<"transcribeAudio", "executeReview">>
             ELSE <<"transcribeAudio">>)

\* the collaborator calls of the file being processed
StagesInFlight ==
    IF pc = "awaitBatchTranscribe" THEN <<"transcribeAudio">>
    ELSE IF pc = "awaitBatchReview" THEN <<"transcribeAudio", "executeReview">>
    ELSE <<>>

----------------------------------------------------------------------------
(* C16 *)

\* transcribeAudio answered a well-formed transcript that is empty or white
\* space only
BlankTranscript(answer) ==
    /\ answer.kind = "returned"
    /\ answer.result.shape = "object"
    /\ Blank(answer.result.text)

----------------------------------------------------------------------------
(* C17 *)

\* the invocation is a live single-file/recording one without a file and with
\* a positive maxRecordingTime
CountdownExpected ==
    /\ SingleMode /\ Live
    /\ Options.file = None
    /\ Options.maxRecordingTime # None
    /\ Options.maxRecordingTime[1] > 0

\* C17: within one invocation a countdown timer is created exactly once when
\* the invocation is live, no file is supplied and maxRecordingTime > 0, and
\* never otherwise (file supplied, maxRecordingTime absent, zero or negative,
\* dry run, or batch mode).
C17_TimerCreatedOnceWhenRecording ==
    /\ timer.created = Count("createAudioRecordingCountdown")
    /\ timer.created <= 1
    /\ ~CountdownExpected => timer.created = 0
    /\ (CountdownExpected /\ pc # "start") => timer.created = 1

\* audioReview recording with maxRecordingTime = 60: one timer was created and
\* run has returned
C17_Witness ==
    /\ cmd = "audioReview"
    /\ CountdownExpected
    /\ Options.maxRecordingTime = Some(60)
    /\ pc = "done"
    /\ outcome.kind = "returned"
    /\ timer.created = 1
    /\ Count("createAudioRecordingCountdown") = 1

----------------------------------------------------------------------------
(* C18 *)

\* every call of a comes before every call of b
Before(a, b) ==
    \A i, j \in 1..Len(calls) : (calls[i] = a /\ calls[j] = b) => i < j

\* C18: the countdown timer lives within the acquisition phase: start() is
\* issued before processAudio is called, and stop() is called after
\* processAudio completes and before transcribeAudio or the downstream
\* command is invoked, also when processAudio raises.
C18_TimerWithinAcquisition ==
    /\ Before("createAudioRecordingCountdown", "start")
    /\ Before("start", "processAudio")
    /\ Before("processAudio", "stop")
    /\ Before("stop", "transcribeAudio")
    /\ Before("stop", "executeCommit")
    /\ Before("stop", "executeReview")
    /\ Called("start") =>
        /\ Called("processAudio")
        /\ acquisition.kind = "none" => ~Called("stop")
        /\ acquisition.kind # "none" => Called("stop")
        /\ (Called("transcribeAudio") \/ DownstreamCalls > 0) => Called("stop")

\* audioCommit recording: processAudio raised a plain error, the timer was
\* stopped and then the commit command was invoked
C18_Witness ==
    /\ cmd = "audioCommit"
    /\ acquisition.kind = "raised"
    /\ acquisition.error.class = "Error"
    /\ acquisition.error.name = "Error"
    /\ calls = <<"createAudioRecordingCountdown", "start", "processAudio", "stop",
                 "executeCommit">>

----------------------------------------------------------------------------
(* C19 *)

\* what run has done and answered, the countdown's promise left out
Progress ==
    <<cmd, runConfig, pc, calls, acquisition, transcription, audioPath, audioContext,
      delegated, downstream, outcome, timer.created, timer.started, timer.stopped>>

\* the outcome of a finished live single-file/recording invocation as the
\* collaborators' answers determine it
OutcomeDetermined ==
    IF Len(delegated) = 1
    THEN /\ outcome.kind = downstream.kind
         /\ outcome.result = downstream.result
         /\ outcome.error = downstream.error
    ELSE /\ delegated = <<>>
         /\ outcome.kind = "raised"
         /\ outcome.error.origin \in {"execute", "processAudio", "transcribeAudio"}
         /\ \/ acquisition.kind = "returned"
                 /\ acquisition.result.cancelled = Some(TRUE)
                 /\ outcome.error.origin = "execute"
            \/ acquisition.kind = "raised"
                 /\ RecognisedCancellation(acquisition.error)
                 /\ outcome.error.message = acquisition.error.message
            \/ transcription.kind = "raised"
                 /\ RecognisedCancellation(transcription.error)
                 /\ outcome.error.message = transcription.error.message

\* C19: for every interleaving of the countdown task with acquisition (the
\* promise of start() resolving or rejecting before, during or after
\* processAudio completes), the outcome of run is determined by the
\* acquisition result (and the answers of the later collaborators) alone: the
\* step in which the promise settles changes nothing else, a finished run has
\* the outcome the collaborators' answers determine, whatever the promise did,
\* the transcript handed on is the one transcribed, and stop() is called
\* exactly once.
C19_TimerCompletionChangesNothing ==
    /\ [][timer'.promise # timer.promise /\ timer.promise = "pending"
            => Progress' = Progress]_vars
    /\ [](timer.started > 0 =>
            /\ SingleMode /\ Live
            /\ timer.stopped <= 1
            /\ acquisition.kind # "none" => (timer.stopped = 1 /\ Count("stop") = 1)
            /\ Len(delegated) = 1 =>
                FreeTextOf(delegated[1]) =
                    IF ~Blank(Transcript) THEN Stripped(Transcript) ELSE FallbackText
            /\ pc = "done" => OutcomeDetermined)

\* the promise of start() rejected, the timer was stopped once and run
\* returned the downstream result
C19_Witness ==
    /\ timer.started = 1
    /\ timer.promise = "rejected"
    /\ timer.stopped = 1
    /\ acquisition.kind = "returned"
    /\ pc = "done"
    /\ outcome.kind = "returned"
    /\ outcome.result = downstream.result
    /\ Len(delegated) = 1

----------------------------------------------------------------------------
(* C20 *)

----------------------------------------------------------------------------
(* C21 *)

\* transcribeAudio returned a value that is not an object with a string text
MalformedTranscription ==
    /\ transcription.kind = "returned"
    /\ transcription.result.shape \in {"null", "string", "noText", "numberText"}

\* C21: in single-file/recording mode of both commands, when transcribeAudio
\* returns a value that is not an object with a string 'text' field (null, a
\* bare string, an object without text, a non-string text), the result is
\* treated as a recoverable failure: the downstream command is invoked with an
\* empty resolved transcript (its free text is the fallback text) and the
\* malformed result does not make run raise (run raises only the error of the
\* downstream command, if that raises).
C21_MalformedTranscriptionFallsBack ==
    (SingleMode /\ MalformedTranscription) =>
        /\ audioContext = EmptyString
        /\ Len(delegated) = 1
        /\ DownstreamCalls = 1
        /\ FreeTextOf(delegated[1]) = FallbackText
        /\ pc \in {"awaitDownstream", "done"}
        /\ outcome.kind = "raised" =>
            /\ downstream.kind = "raised"
            /\ outcome.error = downstream.error
        /\ (pc = "done" /\ downstream.kind = "returned") =>
            /\ outcome.kind = "returned"
            /\ outcome.result = downstream.result

\* audioReview: transcribeAudio returned a bare string, the review command was
\* invoked with the pre-existing note and run returned
C21_Witness ==
    /\ cmd = "audioReview" /\ SingleMode
    /\ transcription.kind = "returned"
    /\ transcription.result.shape = "string"
    /\ runConfig.review.note = Some(Str("old"))
    /\ Len(delegated) = 1
    /\ delegated[1].review.note = Str("old")
    /\ pc = "done"
    /\ outcome.kind = "returned"

----------------------------------------------------------------------------
(* C22 *)

\* the downstream command of the invoked command
DownstreamCommand == IF cmd = "audioCommit" THEN "executeCommit" ELSE "executeReview"

\* the call is one of the three stages: acquisition, transcription, delegation
IsStage(call) ==
    call \in {"processAudio", "transcribeAudio", "executeCommit", "executeReview"}

\* the stage calls made so far, in their order
Stages == SelectSeq(calls, IsStage)

\* C22: in a live single-file/recording invocation the collaborator calls
\* occur strictly in the order acquisition, transcription, delegation, each at
\* most once and each only after the previous one has completed; when
\* acquisition fails with an error that is no cancellation, transcription is
\* never called and delegation follows directly.
C22_StagesInOrder ==
    (SingleMode /\ Live) =>
        /\ Stages \in {<<>>,
                       <<"processAudio">>,
                       <<"processAudio", "transcribeAudio">>,
                       <<"processAudio", "transcribeAudio", DownstreamCommand>>,
                       <<"processAudio", DownstreamCommand>>}
        /\ pc # "start" => Called("processAudio")
        /\ acquisition.kind = "none" => Len(Stages) <= 1
        /\ Called("transcribeAudio") =>
            /\ acquisition.kind = "returned"
            /\ acquisition.result.cancelled # Some(TRUE)
        /\ (Called("transcribeAudio") /\ transcription.kind = "none") => Len(Stages) = 2
        /\ DownstreamCalls > 0 => acquisition.kind # "none"
        /\ (acquisition.kind = "raised" /\ ~CancellationSignal(acquisition.error)) =>
            /\ Stages = <<"processAudio", DownstreamCommand>>
            /\ transcription.kind = "none"
            /\ audioPath = <<>>

\* audioReview: processAudio raised a plain error, transcribeAudio was not
\* called, the review command was, and run returned
C22_Witness ==
    /\ cmd = "audioReview" /\ SingleMode /\ Live
    /\ acquisition.kind = "raised"
    /\ acquisition.error.name = "Error"
    /\ acquisition.error.class = "Error"
    /\ Stages = <<"processAudio", "executeReview">>
    /\ pc = "done"
    /\ outcome.kind = "returned"

----------------------------------------------------------------------------
(* C23 *)

\* C23: batch-mode files are processed strictly sequentially: the processing
\* of file i+1 never starts before the processing of file i has finished and
\* its outcome has been recorded, so at most one file is in flight at any
\* time, and outcomes are appended in discovery order.  The files started are
\* those handed to transcribeAudio (the first call made for a file), the files
\* recorded are those whose section has been pushed.
C23_BatchIsSequential ==
    (BatchLive /\ storage = "listed") =>
        LET started == Len(audioPath)
            recorded == Len(results)
        IN  /\ recorded <= started
            /\ started <= recorded + 1
            /\ started <= Len(audioFiles)
            /\ started = Count("transcribeAudio")
            /\ started = recorded + 1
                    <=> pc \in {"awaitBatchTranscribe", "awaitBatchReview"}
            /\ idx = recorded
            /\ Len(fileLog) = recorded
            /\ \A i \in 1..started : audioPath[i] = audioFiles[i]
            /\ \A i \in 1..recorded :
                    LabelOf(results[i]) = Basename(audioFiles[i])

\* two files were discovered, the first one's outcome is recorded and the
\* second one is in flight
C23_Witness ==
    /\ BatchLive
    /\ Len(audioFiles) = 2
    /\ Len(results) = 1
    /\ Len(audioPath) = 2
    /\ pc = "awaitBatchTranscribe"
    /\ audioPath[2] = audioFiles[2]

----------------------------------------------------------------------------
(* C24 *)

\* the content of a file's section as a function of that file and of the
\* collaborators' answers for that file alone
OwnContent(file, log) ==
    IF log.transcription.kind = "raised"
    THEN <<"Failed to process ">> \o Basename(file)
         \o <<": ", log.transcription.error.message>>
    ELSE IF log.transcription.result.shape # "object"
    THEN <<"Failed to process ">> \o Basename(file)
         \o <<": ", "Invalid transcription result: missing or invalid text property">>
    ELSE IF Blank(log.transcription.result.text)
    THEN EmptyString
    ELSE IF log.downstream.kind = "raised"
    THEN <<"Failed to process ">> \o Basename(file)
         \o <<": ", log.downstream.error.message>>
    ELSE log.downstream.result

\* C24: batch items are independent: two batch runs over the same discovered
\* files that differ only in the collaborators' responses for file j have
\* identical report sections for every other file i, and the same number and
\* order of sections.  Checked as: in every run the section of file i is one
\* fixed function of file i and of the responses for file i alone, so that two
\* runs that agree on the responses for file i agree on its section; the
\* number of sections is the number of discovered files and their labels
\* follow the discovery order, whatever the responses.
C24_SectionsDependOnOwnResponses ==
    (BatchLive /\ storage = "listed") =>
        /\ Len(results) = Len(fileLog)
        /\ \A i \in 1..Len(results) :
            results[i] = <<"File: ">> \o Basename(audioFiles[i]) \o <<"\n">>
                         \o OwnContent(audioFiles[i], fileLog[i])
        /\ (pc = "done" /\ audioFiles # <<>>) =>
            /\ outcome.kind = "returned"
            /\ Len(results) = Len(audioFiles)
            /\ SectionsOf(outcome.result) = results

\* two files: the transcription of the first raised a cancellation error, the
\* second was reviewed, and its section holds the review's result
C24_Witness ==
    /\ BatchLive
    /\ Len(audioFiles) = 2
    /\ pc = "done"
    /\ fileLog[1].transcription.kind = "raised"
    /\ fileLog[1].transcription.error.name = "CancellationError"
    /\ fileLog[2].downstream.kind = "returned"
    /\ fileLog[2].downstream.result = Str("Mock message generated")
    /\ ContentOf(results[2]) = Str("Mock message generated")
    /\ SectionsOf(outcome.result)[2] = results[2]

----------------------------------------------------------------------------
(* C25 *)

\* C25: in single-file/recording mode, the path passed to transcribeAudio is
\* the explicit file option if set; otherwise the path reported by
\* processAudio (audioFilePath) if present; otherwise a generated timestamped
\* filename joined under outputDirectory (default 'output').
C25_TranscribedPathPriority ==
    (SingleMode /\ Called("transcribeAudio")) =>
        /\ Len(audioPath) = 1
        /\ audioPath[1] =
            IF Options.file # None /\ Options.file[1] # EmptyString
            THEN Options.file[1]
            ELSE IF acquisition.result.audioFilePath # None
                    /\ acquisition.result.audioFilePath[1] # EmptyString
            THEN acquisition.result.audioFilePath[1]
            ELSE (IF runConfig.outputDirectory \in {None, Some(EmptyString)}
                  THEN <<"output">>
                  ELSE runConfig.outputDirectory[1])
                 \o <<"/", "audio-timestamp.wav">>

\* no file option and no reported path: transcribeAudio got the generated
\* filename under the configured output directory
C25_Witness ==
    /\ SingleMode
    /\ Options.file = None
    /\ acquisition.kind = "returned"
    /\ acquisition.result.audioFilePath = None
    /\ runConfig.outputDirectory = Some(Str("out"))
    /\ Called("transcribeAudio")
    /\ audioPath = << <<"out", "/", "audio-timestamp.wav">> >>

----------------------------------------------------------------------------
(* C26 *)

\* the audioReview options block carries a non-empty directory
DirectoryGiven ==
    /\ cmd = "audioReview"
    /\ runConfig.audioReview.directory # None
    /\ runConfig.audioReview.directory[1] # EmptyString

\* C26: in audioReview, whenever the options block carries a non-empty
\* directory, the batch sub-flow is taken instead of the single-file/recording
\* flow: in a live invocation discovery is invoked first, and the file option
\* and the live recording path (processAudio, countdown timer, single-file
\* delegation) are not used, even when file is also set; a dry run answers
\* with the batch preview.  Without a directory audioReview never enters the
\* batch sub-flow, and audioCommit never does.
C26_DirectorySelectsBatch ==
    /\ (DirectoryGiven /\ Live /\ pc # "start") =>
        /\ Len(calls) > 0 /\ calls[1] = "isDirectoryReadable"
        /\ storage # "none"
    /\ DirectoryGiven =>
        /\ ~Called("processAudio")
        /\ ~Called("createAudioRecordingCountdown") /\ ~Called("start")
        /\ timer = NoTimer
        /\ acquisition.kind = "none"
        /\ pc \notin {"awaitProcessAudio", "awaitTranscribe", "awaitDownstream"}
        /\ \A i \in 1..Len(audioPath) :
            /\ audioPath[i] = audioFiles[i]
            /\ runConfig.audioReview.file # Some(audioPath[i])
        /\ \A i \in 1..Len(delegated) :
            /\ delegated[i].review.note[1] = "Audio Review from "
            /\ Len(delegated[i].review.note) > 1
        /\ (pc = "done" /\ ~Live) =>
            outcome.result = <<"DRY RUN", ": Directory batch processing would be performed">>
        /\ (pc = "done" /\ outcome.kind = "returned" /\ audioFiles # <<>>) =>
            outcome.result[1] = "Batch Audio Review Results ("
    /\ ~DirectoryGiven =>
        /\ storage = "none"
        /\ ~Called("isDirectoryReadable")
        /\ pc \notin {"awaitBatchTranscribe", "awaitBatchReview"}
        /\ listing = <<>> /\ audioFiles = <<>> /\ results = <<>> /\ fileLog = <<>>

\* a directory and a file are both set: the directory's file was transcribed
\* and reviewed, the file option was not used, and run returned the report
C26_Witness ==
    /\ DirectoryGiven /\ Live
    /\ runConfig.audioReview.file = Some(AudioFile)
    /\ runConfig.audioReview.maxRecordingTime = Some(60)
    /\ Len(audioFiles) = 1
    /\ audioPath = audioFiles
    /\ Len(delegated) = 1
    /\ pc = "done"
    /\ outcome.kind = "returned"
    /\ outcome.result[1] = "Batch Audio Review Results ("

----------------------------------------------------------------------------
(* C27 *)

\* the fields of the review block that are mapped from the audioReview block
MappedFields ==
    {"includeCommitHistory", "includeRecentDiffs", "includeReleaseNotes",
     "includeGithubIssues", "commitHistoryLimit", "diffHistoryLimit",
     "releaseNotesLimit", "githubIssuesLimit", "sendit", "context"}

\* the text resolved for the free-text field in single-file/recording mode
ResolvedText == IF ~Blank(Transcript) THEN Stripped(Transcript) ELSE FallbackText

\* config d equals config c in every top-level field but the named one
SameBut(d, c, field) ==
    /\ DOMAIN d = DOMAIN c
    /\ \A k \in DOMAIN c \ {field} : d[k] = c[k]

----------------------------------------------------------------------------
(* C28 *)

\* C28: the input config is never modified by run: in every step of every
\* invocation (dry run, single file, recording, batch; success, fallback,
\* cancellation or error) every field of the caller's config object,
\* including its commit, review, audioCommit and audioReview blocks, keeps its
\* value.
C28_ConfigNeverModified == [][runConfig' = runConfig]_vars

\* audioCommit: the commit command got a config with the direction "h" while
\* the caller's config still has none, and run returned
C28_Witness ==
    /\ cmd = "audioCommit"
    /\ runConfig.commit.direction = None
    /\ Len(delegated) = 1
    /\ delegated[1].commit.direction = <<"h">>
    /\ delegated[1] # runConfig
    /\ pc = "done"
    /\ outcome.kind = "returned"

----------------------------------------------------------------------------
(* C29 *)

\* the errors raised inside the try block of the single-file/recording flow
\* by processAudio or by transcribeAudio
RaisedInTry ==
    (IF acquisition.kind = "raised" THEN {acquisition.error} ELSE {})
    \cup (IF transcription.kind = "raised" THEN {transcription.error} ELSE {})

\* C29: in the audioReview single-file/recording flow, an error raised during
\* acquisition or transcription propagates to the caller if and only if its
\* name is 'CancellationError'; every other error, including one of another
\* cancellation class such as UserCancellationError and a CancellationError
\* whose name was not set, is swallowed and leads to fallback delegation with
\* an empty transcript.
C29_ReviewPropagatesByNameOnly ==
    (cmd = "audioReview" /\ SingleMode /\ Live) =>
        /\ Cardinality(RaisedInTry) <= 1
        /\ \A e \in RaisedInTry :
            IF e.name = "CancellationError"
            THEN /\ pc = "done"
                 /\ outcome.kind = "raised"
                 /\ outcome.error = e
                 /\ delegated = <<>>
                 /\ ~Called("executeReview")
            ELSE /\ Len(delegated) = 1
                 /\ Count("executeReview") = 1
                 /\ audioContext = EmptyString
                 /\ delegated[1].review.note = FallbackText
                 /\ outcome.kind = "raised" =>
                        (downstream.kind = "raised" /\ outcome.error = downstream.error)
        /\ (pc = "done" /\ outcome.kind = "raised" /\ delegated = <<>>) =>
            outcome.error.name = "CancellationError"

\* transcribeAudio raised a CancellationError whose name is 'Error': the
\* review command was invoked and run returned
C29_Witness ==
    /\ cmd = "audioReview" /\ SingleMode /\ Live
    /\ transcription.kind = "raised"
    /\ transcription.error.class = "CancellationError"
    /\ transcription.error.name = "Error"
    /\ Len(delegated) = 1
    /\ pc = "done"
    /\ outcome.kind = "returned"

----------------------------------------------------------------------------
(* C30 *)

\* an error left the acquisition/transcription phase of the invocation: run
\* raised without delegating
EscapedPhase == pc = "done" /\ outcome.kind = "raised" /\ delegated = <<>>

\* C30: in the audioCommit flow, every error that escapes the
\* acquisition/transcription phase is a UserCancellationError: an error that
\* already is a UserCancellationError is raised as it is, a legacy
\* CancellationError (recognised by the name 'CancellationError' or by its
\* class) is replaced by a new UserCancellationError with the same message,
\* and any other error never escapes that phase.
C30_CommitEscapesAreUserCancellations ==
    (cmd = "audioCommit" /\ Live) =>
        /\ EscapedPhase =>
            /\ outcome.error.class = "UserCancellationError"
            /\ \/ RaisedInTry # {}
               \/ acquisition.kind = "returned"
                    /\ acquisition.result.cancelled = Some(TRUE)
        /\ \A e \in RaisedInTry :
            IF e.class = "UserCancellationError"
            THEN EscapedPhase /\ outcome.error = e
            ELSE IF e.name = "CancellationError" \/ e.class = "CancellationError"
            THEN /\ EscapedPhase
                 /\ outcome.error # e
                 /\ outcome.error.class = "UserCancellationError"
                 /\ outcome.error.name = "UserCancellationError"
                 /\ outcome.error.message = e.message
                 /\ outcome.error.origin = "execute"
            ELSE /\ ~EscapedPhase
                 /\ Len(delegated) = 1
        /\ MalformedTranscription => Len(delegated) = 1

\* processAudio raised a plain Error named 'CancellationError' and run raised
\* a new UserCancellationError with its message
C30_Witness ==
    /\ cmd = "audioCommit" /\ Live
    /\ acquisition.kind = "raised"
    /\ acquisition.error.class = "Error"
    /\ acquisition.error.name = "CancellationError"
    /\ EscapedPhase
    /\ outcome.error.class = "UserCancellationError"
    /\ outcome.error.message = acquisition.error.message
    /\ outcome.error.origin = "execute"

----------------------------------------------------------------------------
(* C31 *)

\* execute has ended the way its mode prescribes: a dry run with its preview,
\* a live single-file/recording run with the downstream command's answer or
\* an error, a batch run whose discovery failed with that error, a batch run
\* over no file with the 'no files' result, and a batch run over N >= 1 files
\* with the report of N sections after N iterations, one per discovered file
Terminated ==
    /\ pc = "done"
    /\ outcome.kind \in {"returned", "raised"}
    /\ ~Live => outcome.kind = "returned"
    /\ (Live /\ SingleMode) =>
        /\ OutcomeDetermined
        /\ outcome.kind = "returned" =>
            (Len(delegated) = 1 /\ outcome.result = downstream.result)
        /\ idx = 0 /\ results = <<>>
    /\ (BatchLive /\ storage # "listed") =>
        /\ outcome.kind = "raised"
        /\ idx = 0 /\ Count("transcribeAudio") = 0
    /\ (BatchLive /\ storage = "listed") =>
        /\ idx = Len(audioFiles)
        /\ Len(results) = Len(audioFiles)
        /\ Len(fileLog) = Len(audioFiles)
        /\ audioPath = audioFiles
        /\ Count("transcribeAudio") = Len(audioFiles)
        /\ Count("executeReview") <= Len(audioFiles)
        /\ Count("processAudio") = 0
        /\ outcome = Returned(IF audioFiles = <<>>
                              THEN NoFilesResult
                              ELSE CombinedResults(audioFiles, results))

\* C31: provided every collaborator call returns or raises, every invocation
\* ends and stays ended: a single-file/recording run has returned the
\* downstream command's result or raised; a batch run over N discovered
\* files has made exactly N iterations, one per discovered file in discovery
\* order, and has returned the report of the N sections (with N = 0, no
\* iteration and the 'no files' result)
C31_EveryInvocationTerminates == <>[]Terminated

\* a batch run over two discovered files has ended with both processed, the
\* second one's review having raised
C31_Witness ==
    /\ BatchLive /\ storage = "listed"
    /\ Len(audioFiles) = 2
    /\ pc = "done"
    /\ idx = 2
    /\ Count("transcribeAudio") = 2
    /\ Len(fileLog) = 2
    /\ fileLog[2].downstream.kind = "raised"
    /\ outcome.kind = "returned"
    /\ Len(SectionsOf(outcome.result)) = 2

====
